---- MODULE Spec2Model ----
(***************************************************************************)
(* pushkinlib: the storage repository (bulk import, full clear, search)    *)
(* and the search query parser, as state machines over a small catalog.    *)
(* Text values (titles, names, queries) are sequences of one-character     *)
(* strings; Cyrillic letters are written "cy_x" / "CY_X".                  *)
(***************************************************************************)
EXTENDS Integers, Sequences, FiniteSets, TLC

VARIABLES
    db,         \* the committed content of the SQLite database
    ftsFresh,   \* Repository.ftsFresh (atomic.Bool)
    conn,       \* the connections of the sql.DB pool and their PRAGMA values
    freeConn,   \* the idle connections of the pool, most recently returned last
    writer,     \* the thread whose transaction holds SQLite's write lock
    th,         \* per request thread: position and locals of the running call
    hist,       \* history: what the claims compare against
    ncalls,     \* calls started so far
    pq,         \* the query parser's input and output
    faults,     \* statements the engine has failed or refused so far
    feed        \* the OPDS client: the catalog it reads and the feed it was served

vars == <<db, ftsFresh, conn, freeConn, writer, th, hist, ncalls, pq, faults, feed>>

----------------------------------------------------------------------------
\* Bounds of the model

MaxBatch == 2
MaxCalls == 3
MaxFaults == 1

Threads == {"t1", "t2"}
NoThread == "none"
\* an absent series_id / genre_id (sql.NullInt64 not Valid); row ids start at 1
NullID == 0

----------------------------------------------------------------------------
\* Inbound records (inpx.Book)

Book(id, title, authors, series, num, genre, year, lang, size, arch, fnum, fmt, date, rating, ann) ==
    [ID |-> id, Title |-> title, Authors |-> authors, Series |-> series,
     SeriesNum |-> num, Genre |-> genre, Year |-> year, Language |-> lang,
     FileSize |-> size, ArchivePath |-> arch, FileNum |-> fnum, Format |-> fmt,
     Date |-> date, Rating |-> rating, Annotation |-> ann]

Ann == <<"a", "n">>
Bob == <<"b", "o">>

BookA1 ==
    Book("b1", <<"k", "a">>, <<Ann, Bob>>, <<"s", "a">>, 1, "fantasy", 2020, "ru",
         100, "arc1", "001", "fb2", 1, 5, <<"x", " ", "y">>)
BookA2 ==
    Book("b1", <<"k", "b">>, <<Bob>>, <<>>, 0, "", 2021, "en",
         200, "arc2", "002", "epub", 2, 3, <<"z">>)
BookB ==
    Book("b2", <<"k", "a">>, <<Ann, <<>>>>, <<"s", "a">>, 2, "fantasy", 1999, "ru",
         300, "arc1", "003", "fb2", 3, 0, <<>>)

BookInputs == {BookA1, BookA2, BookB}
BookIDs == {b.ID : b \in BookInputs}

\* the sequences of at most n different elements of S
RECURSIVE SeqsUpTo(_, _)
SeqsUpTo(S, n) ==
    IF n = 0 THEN {<<>>}
    ELSE LET shorter == SeqsUpTo(S, n - 1)
             longest == {s \in shorter : Len(s) = n - 1}
         IN  shorter \cup
             UNION {{Append(s, x) : x \in S \ {s[i] : i \in 1 .. Len(s)}} : s \in longest}

\* the batches: records differ, IDs may repeat (BookA1 and BookA2)
Batches == SeqsUpTo(BookInputs, MaxBatch)

----------------------------------------------------------------------------
\* Tables (schema.sql, and the books_fts full-text table)

EmptyDB ==
    [books |-> {}, authors |-> {}, series |-> {}, genres |-> {},
     book_authors |-> {}, books_fts |-> <<>>,
     sqlite_sequence |-> [authors |-> 0, series |-> 0, genres |-> 0]]

\* strings.Join(elems, sep)
RECURSIVE Join(_, _)
Join(elems, sep) ==
    IF Len(elems) = 0 THEN <<>>
    ELSE IF Len(elems) = 1 THEN elems[1]
    ELSE elems[1] \o sep \o Join(Tail(elems), sep)

RECURSIVE SelectSeq2(_, _)
SelectSeq2(s, bookID) ==
    IF s = <<>> THEN <<>>
    ELSE IF Head(s).book_id = bookID THEN SelectSeq2(Tail(s), bookID)
    ELSE <<Head(s)>> \o SelectSeq2(Tail(s), bookID)

\* get-or-create on a table with id INTEGER PRIMARY KEY AUTOINCREMENT, name UNIQUE:
\* cache hit; else INSERT; on the uniqueness violation SELECT by name.
\* (variant for comparison: always INSERT, no cache, no lookup)
getOrCreateDup(rows, last, name, cache) ==
    LET id == last + 1
    IN  [rows |-> rows \cup {[id |-> id, name |-> name]}, last |-> id,
         cache |-> (name :> id) @@ cache, id |-> id]

getOrCreateTx(rows, last, name, cache) ==
    IF name \in DOMAIN cache
    THEN [rows |-> rows, last |-> last, cache |-> cache, id |-> cache[name]]
    ELSE IF \E r \in rows : r.name = name
    THEN LET id == (CHOOSE r \in rows : r.name = name).id
         IN  [rows |-> rows, last |-> last, cache |-> (name :> id) @@ cache, id |-> id]
    ELSE LET id == last + 1
         IN  [rows |-> rows \cup {[id |-> id, name |-> name]}, last |-> id,
              cache |-> (name :> id) @@ cache, id |-> id]

getOrCreateAuthorTx(d, name, cache) ==
    LET r == getOrCreateTx(d.authors, d.sqlite_sequence.authors, name, cache)
    IN  [db |-> [d EXCEPT !.authors = r.rows, !.sqlite_sequence.authors = r.last],
         cache |-> r.cache, id |-> r.id]

getOrCreateSeriesTx(d, name, cache) ==
    LET r == getOrCreateTx(d.series, d.sqlite_sequence.series, name, cache)
    IN  [db |-> [d EXCEPT !.series = r.rows, !.sqlite_sequence.series = r.last],
         cache |-> r.cache, id |-> r.id]

getOrCreateGenreTx(d, name, cache) ==
    LET r == getOrCreateTx(d.genres, d.sqlite_sequence.genres, name, cache)
    IN  [db |-> [d EXCEPT !.genres = r.rows, !.sqlite_sequence.genres = r.last],
         cache |-> r.cache, id |-> r.id]

EmptyCaches == [author |-> <<>>, series |-> <<>>, genre |-> <<>>]

\* INSERT OR REPLACE INTO books: the row with the same primary key is deleted
\* first and, foreign keys being on (_foreign_keys=1), its book_authors rows
\* go with it (ON DELETE CASCADE).
\* (variant for comparison: a plain INSERT that keeps the old row)
upsertBookPlain(d, row) ==
    [d EXCEPT !.books = @ \cup {row}]

\* (variant for comparison: the row is replaced and the links of the old row
\* stay, as with foreign keys off)
upsertBookKeepLinks(d, row) ==
    [d EXCEPT !.books = {b \in @ : b.id # row.id} \cup {row}]

upsertBook(d, row) ==
    IF \E old \in d.books : old.id = row.id
    THEN [d EXCEPT !.books = {b \in @ : b.id # row.id} \cup {row},
                   !.book_authors = {ba \in @ : ba.book_id # row.id}]
    ELSE [d EXCEPT !.books = @ \cup {row}]

bookRow(book, seriesID, genreID) ==
    [id |-> book.ID, title |-> book.Title, series_id |-> seriesID,
     series_num |-> book.SeriesNum, genre_id |-> genreID, year |-> book.Year,
     language |-> book.Language, file_size |-> book.FileSize,
     archive_path |-> book.ArchivePath, file_num |-> book.FileNum,
     format |-> book.Format, date_added |-> book.Date, rating |-> book.Rating,
     annotation |-> book.Annotation]

ftsRow(book) ==
    [book_id |-> book.ID, title |-> book.Title, annotation |-> book.Annotation,
     authors |-> Join(book.Authors, <<" ">>), series |-> book.Series]

\* the author loop of insertBookTx: empty names skipped, get-or-create,
\* INSERT OR IGNORE INTO book_authors
RECURSIVE linkAuthors(_, _, _, _)
linkAuthors(d, cache, bookID, names) ==
    IF names = <<>> THEN [db |-> d, cache |-> cache]
    ELSE IF Head(names) = <<>> THEN linkAuthors(d, cache, bookID, Tail(names))
    ELSE LET a == getOrCreateAuthorTx(d, Head(names), cache)
             linked == [a.db EXCEPT !.book_authors =
                            @ \cup {[book_id |-> bookID, author_id |-> a.id]}]
         IN  linkAuthors(linked, a.cache, bookID, Tail(names))

\* insertBookTx; failAt names the statement the engine fails ("none": no failure)
FailPoints == {"none", "book", "fts"}

insertBookTx(d, book, caches, skipFTSDelete, failAt) ==
    LET s  == IF book.Series # <<>>
              THEN getOrCreateSeriesTx(d, book.Series, caches.series)
              ELSE [db |-> d, cache |-> caches.series, id |-> NullID]
        g  == IF book.Genre # ""
              THEN getOrCreateGenreTx(s.db, book.Genre, caches.genre)
              ELSE [db |-> s.db, cache |-> caches.genre, id |-> NullID]
        d3 == upsertBook(g.db, bookRow(book, s.id, g.id))
        a  == linkAuthors(d3, caches.author, book.ID, book.Authors)
        d5 == IF ~skipFTSDelete
              THEN [a.db EXCEPT !.books_fts = SelectSeq2(@, book.ID)]
              ELSE a.db
        d6 == [d5 EXCEPT !.books_fts = Append(@, ftsRow(book))]
        c2 == [author |-> caches.author, series |-> s.cache, genre |-> g.cache]
        c4 == [author |-> a.cache, series |-> s.cache, genre |-> g.cache]
    IN  IF failAt = "book" THEN [db |-> g.db, caches |-> c2, err |-> TRUE]
        ELSE IF failAt = "fts" THEN [db |-> d5, caches |-> c4, err |-> TRUE]
        ELSE [db |-> d6, caches |-> c4, err |-> FALSE]

\* the six DELETE statements of ClearAllBooks, in their order; failAt is the
\* number of the statement that fails (0: none)
ClearOrder == <<"book_authors", "books", "authors", "series", "genres", "books_fts">>

deleteFrom(d, table) ==
    IF table = "books_fts" THEN [d EXCEPT !.books_fts = <<>>]
    ELSE IF table = "books"
    THEN [d EXCEPT !.books = {},
                   !.book_authors = {ba \in @ : ba.book_id \notin {b.id : b \in d.books}}]
    ELSE IF table = "authors"
    THEN [d EXCEPT !.authors = {},
                   !.book_authors = {ba \in @ : ba.author_id \notin {a.id : a \in d.authors}}]
    ELSE [d EXCEPT ![table] = {}]

RECURSIVE clearTables(_, _, _)
clearTables(d, k, failAt) ==
    IF k > Len(ClearOrder) THEN [db |-> d, err |-> FALSE]
    ELSE IF k = failAt THEN [db |-> d, err |-> TRUE]
    ELSE clearTables(deleteFrom(d, ClearOrder[k]), k + 1, failAt)

----------------------------------------------------------------------------
\* The connection pool (database/sql) and the per-connection PRAGMA state

ConnIds == 1 .. (2 * Cardinality(Threads))

\* a connection opened with "?_journal_mode=WAL&_foreign_keys=1"
DefaultPragmas ==
    [synchronous |-> 2, temp_store |-> 0, cache_size |-> -2000, journal_mode |-> "wal"]

\* the values InsertBooks sets for the import
BulkPragmas ==
    [synchronous |-> 0, temp_store |-> 2, cache_size |-> -200000, journal_mode |-> "MEMORY"]

ClosedConn == [open |-> FALSE, pragma |-> DefaultPragmas]
OpenedConn == [open |-> TRUE, pragma |-> DefaultPragmas]

ToUpper(mode) ==
    CASE mode = "wal" -> "WAL"
      [] mode = "memory" -> "MEMORY"
      [] OTHER -> mode

ToLowerMode(mode) ==
    CASE mode = "WAL" -> "wal"
      [] mode = "MEMORY" -> "memory"
      [] OTHER -> mode

\* the connection the pool hands out: the most recently returned idle one,
\* a new one when none is idle
TopConn ==
    IF freeConn # <<>> THEN freeConn[Len(freeConn)]
    ELSE CHOOSE c \in ConnIds : ~conn[c].open /\ \A o \in ConnIds : ~conn[o].open => c <= o

CanConnect == freeConn # <<>> \/ \E c \in ConnIds : ~conn[c].open

\* the pool after a connection was taken and is held (Begin, Query)
TakenFree == IF freeConn # <<>> THEN SubSeq(freeConn, 1, Len(freeConn) - 1) ELSE <<>>
TakenConn == [conn EXCEPT ![TopConn].open = TRUE]

\* a held connection returns to the pool: kept while fewer than two are idle
\* (the default MaxIdleConns), closed otherwise
ReleasedFree(free, c) == IF Len(free) < 2 THEN Append(free, c) ELSE free
ReleasedConn(cn, free, c) == IF Len(free) < 2 THEN cn ELSE [cn EXCEPT ![c] = ClosedConn]

\* a pool-level statement (r.db.db.Exec / QueryRow): runs on TopConn, which
\* returns to the pool at once
ExecFree == IF freeConn # <<>> THEN freeConn ELSE <<TopConn>>

----------------------------------------------------------------------------
\* Request threads

NoSnapshot == [synchronous |-> 0, temp_store |-> 0, cache_size |-> 0, journal_mode |-> ""]
\* a Go slice: nil, or a sequence of items
NilSlice == [isNil |-> TRUE, items |-> <<>>]
Slice(items) == [isNil |-> FALSE, items |-> items]
NoResult == [Books |-> NilSlice, Total |-> 0, Limit |-> 0, Offset |-> 0, HasMore |-> FALSE]
NoFilter ==
    [Query |-> <<>>, Authors |-> <<>>, Series |-> <<>>, Genres |-> <<>>,
     Languages |-> <<>>, Formats |-> <<>>, YearFrom |-> 0, YearTo |-> 0,
     Limit |-> 0, Offset |-> 0, SortBy |-> "", SortOrder |-> <<>>]

IdleThread ==
    [pc |-> "idle", op |-> "none", books |-> <<>>, i |-> 0, tx |-> EmptyDB,
     txConn |-> 0, began |-> FALSE, skipFTSDelete |-> FALSE, captured |-> FALSE,
     snapshot |-> NoSnapshot, defers |-> <<>>, caches |-> EmptyCaches,
     err |-> FALSE, filter |-> NoFilter, total |-> 0, rows |-> <<>>,
     scanned |-> <<>>, result |-> NoResult]

\* a call has returned: its locals are gone, its outcome stays to be read
\* (of insert_books also i, the record the loop had reached)
Returned(op, books, began, err, result) ==
    [IdleThread EXCEPT !.pc = "done", !.op = op, !.books = books, !.began = began,
                       !.err = err, !.result = result]

\* the outcomes of a statement the engine may fail
MayFail == IF faults < MaxFaults THEN {TRUE, FALSE} ELSE {TRUE}
MayFailAt(points, none) == IF faults < MaxFaults THEN points ELSE {none}
JournalOutcomes == IF faults < MaxFaults THEN {"error", "refused", "accepted"} ELSE {"accepted"}
Fault(ok) == faults' = IF ok THEN faults ELSE faults + 1

CanCall(t) == th[t].pc \in {"idle", "done"} /\ ncalls < MaxCalls

HistAtCall(t) == [hist EXCEPT !.atCall[t] = [db |-> db, fresh |-> ftsFresh]]

\* the last record of a batch that carries the given book ID, as a sequence of
\* one record (empty: none)
RECURSIVE LastWithID(_, _)
LastWithID(books, id) ==
    IF books = <<>> THEN <<>>
    ELSE IF books[Len(books)].ID = id THEN <<books[Len(books)]>>
    ELSE LastWithID(SubSeq(books, 1, Len(books) - 1), id)

HistInserted(books) ==
    [hist EXCEPT !.lastRec = [id \in BookIDs |->
                                 IF LastWithID(books, id) # <<>>
                                 THEN LastWithID(books, id) ELSE @[id]],
                 !.sinceClear = IF ~@.known THEN @
                                ELSE [@ EXCEPT !.inserts = IF @ < 2 THEN @ + 1 ELSE @,
                                               !.batch = IF hist.sinceClear.inserts = 0
                                                         THEN books ELSE <<>>]]

HistCleared ==
    [hist EXCEPT !.lastRec = [id \in BookIDs |-> <<>>],
                 !.sinceClear = [known |-> TRUE, inserts |-> 0, batch |-> <<>>]]

----------------------------------------------------------------------------
\* Repository.InsertBooks

InsertBooksCall(t, books) ==
    /\ CanCall(t)
    /\ ncalls' = ncalls + 1
    /\ hist' = HistAtCall(t)
    /\ th' = [th EXCEPT ![t] =
                IF Len(books) = 0
                THEN Returned("insert", books, FALSE, FALSE, NoResult)
                ELSE [IdleThread EXCEPT !.pc = "ins_snapshot", !.op = "insert",
                                        !.books = books]]
    /\ UNCHANGED <<db, ftsFresh, conn, freeConn, writer, pq, faults, feed>>

\* captureBulkImportPragmaSnapshot: four pool-level PRAGMA reads
InsCapture(t) ==
    /\ th[t].pc = "ins_snapshot"
    /\ CanConnect
    /\ \E ok \in MayFail :
         /\ Fault(ok)
         /\ th' = [th EXCEPT ![t] =
                     IF ok
                     THEN [@ EXCEPT !.pc = "ins_sync", !.captured = TRUE,
                                    !.snapshot = conn[TopConn].pragma]
                     ELSE [@ EXCEPT !.pc = "ins_begin"]]
    /\ conn' = TakenConn
    /\ freeConn' = ExecFree
    /\ UNCHANGED <<db, ftsFresh, writer, hist, ncalls, pq, feed>>

setPragmaInt(cn, c, name, value) == [cn EXCEPT ![c].open = TRUE, ![c].pragma[name] = value]

\* setPragmaJournalMode: the engine answers with the mode now in force
setPragmaJournalMode(cn, c, mode, accepted) ==
    LET normalized == ToUpper(mode)
        now == IF accepted THEN ToLowerMode(normalized) ELSE cn[c].pragma.journal_mode
    IN  [conn |-> [cn EXCEPT ![c].open = TRUE, ![c].pragma.journal_mode = now],
         result |-> ToUpper(now)]

NextPragmaStep(pc) ==
    CASE pc = "ins_sync" -> "ins_temp"
      [] pc = "ins_temp" -> "ins_cache"
      [] pc = "ins_cache" -> "ins_journal"

PragmaOfStep(pc) ==
    CASE pc = "ins_sync" -> "synchronous"
      [] pc = "ins_temp" -> "temp_store"
      [] pc = "ins_cache" -> "cache_size"

\* r.setPragmaInt(name, bulk value); the restore is deferred when it succeeded
InsSetPragma(t) ==
    /\ th[t].pc \in {"ins_sync", "ins_temp", "ins_cache"}
    /\ CanConnect
    /\ \E ok \in MayFail :
         /\ Fault(ok)
         /\ conn' = IF ok
                    THEN setPragmaInt(conn, TopConn, PragmaOfStep(th[t].pc),
                                      BulkPragmas[PragmaOfStep(th[t].pc)])
                    ELSE TakenConn
         /\ th' = [th EXCEPT ![t].pc = NextPragmaStep(@),
                             ![t].defers =
                                 IF ok
                                 THEN Append(@, <<PragmaOfStep(th[t].pc),
                                                  th[t].snapshot[PragmaOfStep(th[t].pc)]>>)
                                 ELSE @]
    /\ freeConn' = ExecFree
    /\ UNCHANGED <<db, ftsFresh, writer, hist, ncalls, pq, feed>>

\* r.setPragmaJournalMode("MEMORY"): an error, or the mode in force, which the
\* engine may have left as it was; the restore is deferred when it is MEMORY
InsSetJournal(t) ==
    /\ th[t].pc = "ins_journal"
    /\ CanConnect
    /\ \E outcome \in JournalOutcomes :
         /\ Fault(outcome = "accepted")
         /\ conn' = IF th[t].snapshot.journal_mode = "" \/ outcome = "error"
                    THEN TakenConn
                    ELSE setPragmaJournalMode(conn, TopConn, BulkPragmas.journal_mode,
                                              outcome = "accepted").conn
         /\ th' = [th EXCEPT ![t].pc = "ins_begin",
                             ![t].defers =
                                 IF /\ th[t].snapshot.journal_mode # ""
                                    /\ outcome # "error"
                                    /\ setPragmaJournalMode(conn, TopConn,
                                           BulkPragmas.journal_mode,
                                           outcome = "accepted").result = "MEMORY"
                                 THEN Append(@, <<"journal_mode",
                                                  th[t].snapshot.journal_mode>>)
                                 ELSE @]
    /\ freeConn' = ExecFree
    /\ UNCHANGED <<db, ftsFresh, writer, hist, ncalls, pq, feed>>

\* r.db.db.Begin(): the transaction holds one connection until it ends
InsBegin(t) ==
    /\ th[t].pc = "ins_begin"
    /\ CanConnect
    /\ \E ok \in MayFail :
         /\ Fault(ok)
         /\ th' = [th EXCEPT ![t] =
                     IF ok
                     THEN [@ EXCEPT !.pc = "ins_swap", !.began = TRUE, !.txConn = TopConn]
                     ELSE [@ EXCEPT !.pc = "ins_restore", !.err = TRUE]]
         /\ conn' = IF ok THEN TakenConn ELSE conn
         /\ freeConn' = IF ok THEN TakenFree ELSE freeConn
    /\ UNCHANGED <<db, ftsFresh, writer, hist, ncalls, pq, feed>>

\* skipFTSDelete := r.ftsFresh.Swap(false)
\* (variant for comparison: a Load that leaves the flag as it is)
InsSwapKeep(t) ==
    /\ th[t].pc = "ins_swap"
    /\ th' = [th EXCEPT ![t].pc = "ins_prepare", ![t].skipFTSDelete = ftsFresh]
    /\ UNCHANGED <<db, ftsFresh, conn, freeConn, writer, hist, ncalls, pq, faults, feed>>

InsSwap(t) ==
    /\ th[t].pc = "ins_swap"
    /\ th' = [th EXCEPT ![t].pc = "ins_prepare", ![t].skipFTSDelete = ftsFresh]
    /\ ftsFresh' = FALSE
    /\ UNCHANGED <<db, conn, freeConn, writer, hist, ncalls, pq, faults, feed>>

\* the tx.Prepare calls
InsPrepare(t) ==
    /\ th[t].pc = "ins_prepare"
    /\ \E ok \in MayFail :
         /\ Fault(ok)
         /\ th' = [th EXCEPT ![t] =
                     IF ok THEN [@ EXCEPT !.pc = "ins_loop", !.i = 1]
                     ELSE [@ EXCEPT !.pc = "ins_rollback", !.err = TRUE]]
    /\ UNCHANGED <<db, ftsFresh, conn, freeConn, writer, hist, ncalls, pq, feed>>

\* the transaction's view of the database: its own writes once it holds the
\* write lock, the committed content before
TxView(t) == IF writer = t THEN th[t].tx ELSE db

\* one turn of the loop over books: insertBookTx in the transaction, whose
\* first write takes the write lock
InsRecord(t) ==
    /\ th[t].pc = "ins_loop"
    /\ writer \in {NoThread, t}
    /\ \E failAt \in MayFailAt(FailPoints, "none") :
         LET r == insertBookTx(TxView(t), th[t].books[th[t].i], th[t].caches,
                               th[t].skipFTSDelete, failAt)
         IN  /\ Fault(failAt = "none")
             /\ th' = [th EXCEPT ![t] =
                         IF r.err
                         THEN [@ EXCEPT !.pc = "ins_rollback", !.err = TRUE, !.tx = r.db]
                         ELSE [@ EXCEPT !.pc = IF th[t].i = Len(th[t].books)
                                               THEN "ins_commit" ELSE "ins_loop",
                                        !.i = @ + 1, !.tx = r.db, !.caches = r.caches]]
    /\ writer' = t
    /\ UNCHANGED <<db, ftsFresh, conn, freeConn, hist, ncalls, pq, feed>>

\* the write lock is held by another transaction until the busy timeout
InsBusy(t) ==
    /\ th[t].pc = "ins_loop"
    /\ writer \notin {NoThread, t}
    /\ th' = [th EXCEPT ![t].pc = "ins_rollback", ![t].err = TRUE]
    /\ UNCHANGED <<db, ftsFresh, conn, freeConn, writer, hist, ncalls, pq, faults, feed>>

\* tx.Commit(): a failed COMMIT is rolled back by the driver
\* (variant for comparison: a failed COMMIT that keeps the writes)
InsCommitPartial(t) ==
    /\ th[t].pc = "ins_commit"
    /\ \E ok \in MayFail :
         /\ Fault(ok)
         /\ db' = th[t].tx
         /\ hist' = IF ok THEN HistInserted(th[t].books) ELSE hist
         /\ th' = [th EXCEPT ![t].pc = "ins_restore", ![t].err = ~ok, ![t].tx = EmptyDB]
    /\ writer' = NoThread
    /\ conn' = ReleasedConn(conn, freeConn, th[t].txConn)
    /\ freeConn' = ReleasedFree(freeConn, th[t].txConn)
    /\ UNCHANGED <<ftsFresh, ncalls, pq, feed>>

InsCommit(t) ==
    /\ th[t].pc = "ins_commit"
    /\ \E ok \in MayFail :
         /\ Fault(ok)
         /\ db' = IF ok THEN th[t].tx ELSE db
         /\ hist' = IF ok THEN HistInserted(th[t].books) ELSE hist
         /\ th' = [th EXCEPT ![t].pc = "ins_restore", ![t].err = ~ok, ![t].tx = EmptyDB]
    /\ writer' = NoThread
    /\ conn' = ReleasedConn(conn, freeConn, th[t].txConn)
    /\ freeConn' = ReleasedFree(freeConn, th[t].txConn)
    /\ UNCHANGED <<ftsFresh, ncalls, pq, feed>>

\* the deferred tx.Rollback() of a call that failed after Begin
InsRollback(t) ==
    /\ th[t].pc = "ins_rollback"
    /\ th' = [th EXCEPT ![t].pc = "ins_restore", ![t].tx = EmptyDB]
    /\ writer' = IF writer = t THEN NoThread ELSE writer
    /\ conn' = ReleasedConn(conn, freeConn, th[t].txConn)
    /\ freeConn' = ReleasedFree(freeConn, th[t].txConn)
    /\ UNCHANGED <<db, ftsFresh, hist, ncalls, pq, faults, feed>>

\* the deferred PRAGMA restores, last registered first
InsRestore(t) ==
    /\ th[t].pc = "ins_restore"
    /\ th[t].defers # <<>>
    /\ CanConnect
    /\ LET d == th[t].defers[Len(th[t].defers)]
       IN  conn' = IF d[1] = "journal_mode"
                   THEN setPragmaJournalMode(conn, TopConn, d[2], TRUE).conn
                   ELSE setPragmaInt(conn, TopConn, d[1], d[2])
    /\ freeConn' = ExecFree
    /\ th' = [th EXCEPT ![t].defers = SubSeq(@, 1, Len(@) - 1)]
    /\ UNCHANGED <<db, ftsFresh, writer, hist, ncalls, pq, faults, feed>>

InsReturn(t) ==
    /\ th[t].pc = "ins_restore"
    /\ th[t].defers = <<>>
    /\ th' = [th EXCEPT ![t] = [Returned("insert", @.books, @.began, @.err, NoResult)
                                   EXCEPT !.i = th[t].i]]
    /\ UNCHANGED <<db, ftsFresh, conn, freeConn, writer, hist, ncalls, pq, faults, feed>>

----------------------------------------------------------------------------
\* Repository.ClearAllBooks

ClearAllBooksCall(t) ==
    /\ CanCall(t)
    /\ ncalls' = ncalls + 1
    /\ hist' = HistAtCall(t)
    /\ th' = [th EXCEPT ![t] = [IdleThread EXCEPT !.pc = "clr_begin", !.op = "clear"]]
    /\ UNCHANGED <<db, ftsFresh, conn, freeConn, writer, pq, faults, feed>>

ClrBegin(t) ==
    /\ th[t].pc = "clr_begin"
    /\ CanConnect
    /\ \E ok \in MayFail :
         /\ Fault(ok)
         /\ th' = [th EXCEPT ![t] =
                     IF ok
                     THEN [@ EXCEPT !.pc = "clr_exec", !.began = TRUE, !.txConn = TopConn]
                     ELSE Returned("clear", <<>>, FALSE, TRUE, NoResult)]
         /\ conn' = IF ok THEN TakenConn ELSE conn
         /\ freeConn' = IF ok THEN TakenFree ELSE freeConn
    /\ UNCHANGED <<db, ftsFresh, writer, hist, ncalls, pq, feed>>

\* the DELETE statements, in the transaction
ClrExec(t) ==
    /\ th[t].pc = "clr_exec"
    /\ writer = NoThread
    /\ \E failAt \in MayFailAt(0 .. Len(ClearOrder), 0) :
         /\ Fault(failAt = 0)
         /\ th' = [th EXCEPT ![t].pc = IF clearTables(db, 1, failAt).err
                                       THEN "clr_rollback" ELSE "clr_commit",
                             ![t].err = clearTables(db, 1, failAt).err,
                             ![t].tx = clearTables(db, 1, failAt).db]
    /\ writer' = t
    /\ UNCHANGED <<db, ftsFresh, conn, freeConn, hist, ncalls, pq, feed>>

ClrBusy(t) ==
    /\ th[t].pc = "clr_exec"
    /\ writer # NoThread
    /\ th' = [th EXCEPT ![t].pc = "clr_rollback", ![t].err = TRUE]
    /\ UNCHANGED <<db, ftsFresh, conn, freeConn, writer, hist, ncalls, pq, faults, feed>>

\* tx.Commit(), and on its error the return
\* (variant for comparison: the flag is stored whatever Commit returned)
ClrCommitAlwaysFresh(t) ==
    /\ th[t].pc = "clr_commit"
    /\ \E ok \in MayFail :
         /\ Fault(ok)
         /\ db' = IF ok THEN th[t].tx ELSE db
         /\ hist' = IF ok THEN HistCleared ELSE hist
         /\ th' = [th EXCEPT ![t].pc = "clr_store", ![t].err = ~ok, ![t].tx = EmptyDB]
    /\ writer' = NoThread
    /\ conn' = ReleasedConn(conn, freeConn, th[t].txConn)
    /\ freeConn' = ReleasedFree(freeConn, th[t].txConn)
    /\ UNCHANGED <<ftsFresh, ncalls, pq, feed>>

ClrCommit(t) ==
    /\ th[t].pc = "clr_commit"
    /\ \E ok \in MayFail :
         /\ Fault(ok)
         /\ db' = IF ok THEN th[t].tx ELSE db
         /\ hist' = IF ok THEN HistCleared ELSE hist
         /\ th' = [th EXCEPT ![t] =
                      IF ok THEN [@ EXCEPT !.pc = "clr_store", !.tx = EmptyDB]
                      ELSE Returned("clear", <<>>, TRUE, TRUE, NoResult)]
    /\ writer' = NoThread
    /\ conn' = ReleasedConn(conn, freeConn, th[t].txConn)
    /\ freeConn' = ReleasedFree(freeConn, th[t].txConn)
    /\ UNCHANGED <<ftsFresh, ncalls, pq, feed>>

\* r.ftsFresh.Store(true), after the commit
ClrStore(t) ==
    /\ th[t].pc = "clr_store"
    /\ ftsFresh' = TRUE
    /\ th' = [th EXCEPT ![t] = Returned("clear", <<>>, TRUE, @.err, NoResult)]
    /\ UNCHANGED <<db, conn, freeConn, writer, hist, ncalls, pq, faults, feed>>

\* the deferred tx.Rollback() of a failed clear
ClrRollback(t) ==
    /\ th[t].pc = "clr_rollback"
    /\ th' = [th EXCEPT ![t] = Returned("clear", <<>>, TRUE, TRUE, NoResult)]
    /\ writer' = IF writer = t THEN NoThread ELSE writer
    /\ conn' = ReleasedConn(conn, freeConn, th[t].txConn)
    /\ freeConn' = ReleasedFree(freeConn, th[t].txConn)
    /\ UNCHANGED <<db, ftsFresh, hist, ncalls, pq, faults, feed>>

----------------------------------------------------------------------------
\* Characters and text order (SQLite's BINARY collation: by code point)

AsciiUpperSeq ==
    <<"A", "B", "C", "D", "E", "F", "G", "H", "I", "J", "K", "L", "M",
      "N", "O", "P", "Q", "R", "S", "T", "U", "V", "W", "X", "Y", "Z">>
AsciiLowerSeq ==
    <<"a", "b", "c", "d", "e", "f", "g", "h", "i", "j", "k", "l", "m",
      "n", "o", "p", "q", "r", "s", "t", "u", "v", "w", "x", "y", "z">>
DigitSeq == <<"0", "1", "2">>
\* the Cyrillic letters of the field vocabulary, in alphabet order
CyrUpperSeq ==
    <<"CY_A", "CY_V", "CY_E", "CY_Z", "CY_I", "CY_N", "CY_O", "CY_P", "CY_R",
      "CY_S", "CY_T", "CY_Y", "CY_YA">>
CyrLowerSeq ==
    <<"cy_a", "cy_v", "cy_e", "cy_z", "cy_i", "cy_n", "cy_o", "cy_p", "cy_r",
      "cy_s", "cy_t", "cy_y", "cy_ya">>

\* (SUP2 is the superscript two, U+00B2)
CodeOrder ==
    <<" ", "!", "\"", "%", "-">> \o DigitSeq \o <<":">> \o AsciiUpperSeq
        \o <<"\\", "_">> \o AsciiLowerSeq \o <<"SUP2">> \o CyrUpperSeq \o CyrLowerSeq

Code(c) == CHOOSE i \in 1 .. Len(CodeOrder) : CodeOrder[i] = c

RECURSIVE TextLeq(_, _)
TextLeq(a, b) ==
    IF a = <<>> THEN TRUE
    ELSE IF b = <<>> THEN FALSE
    ELSE IF Head(a) = Head(b) THEN TextLeq(Tail(a), Tail(b))
    ELSE Code(Head(a)) < Code(Head(b))

----------------------------------------------------------------------------
\* The search query parser (search_query.go)

IndexIn(seq, c) == CHOOSE i \in 1 .. Len(seq) : seq[i] = c
InSeq(seq, c) == \E i \in 1 .. Len(seq) : seq[i] = c

\* unicode.ToLower / unicode.ToUpper of one character
ToLowerChar(c) ==
    IF InSeq(AsciiUpperSeq, c) THEN AsciiLowerSeq[IndexIn(AsciiUpperSeq, c)]
    ELSE IF InSeq(CyrUpperSeq, c) THEN CyrLowerSeq[IndexIn(CyrUpperSeq, c)]
    ELSE c

ToUpperChar(c) ==
    IF InSeq(AsciiLowerSeq, c) THEN AsciiUpperSeq[IndexIn(AsciiLowerSeq, c)]
    ELSE IF InSeq(CyrLowerSeq, c) THEN CyrUpperSeq[IndexIn(CyrLowerSeq, c)]
    ELSE c

\* strings.ToLower
ToLowerText(text) == [i \in 1 .. Len(text) |-> ToLowerChar(text[i])]

\* the regexp's \w: an ASCII letter, digit or underscore
IsWordChar(c) ==
    InSeq(AsciiUpperSeq, c) \/ InSeq(AsciiLowerSeq, c) \/ InSeq(DigitSeq, c) \/ c = "_"

\* the regexp's \s and unicode.IsSpace, on the characters of the model
IsSpace(c) == c = " "

\* unicode.IsLetter(r) || unicode.IsDigit(r)
IsLetterOrDigit(c) ==
    \/ InSeq(AsciiUpperSeq, c) \/ InSeq(AsciiLowerSeq, c) \/ InSeq(DigitSeq, c)
    \/ InSeq(CyrUpperSeq, c) \/ InSeq(CyrLowerSeq, c)

\* the field names of searchFieldRegex
FieldNames ==
    {<<"a", "u", "t", "h", "o", "r">>,
     <<"a", "u", "t", "h", "o", "r", "s">>,
     <<"cy_a", "cy_v", "cy_t", "cy_o", "cy_r">>,
     <<"cy_a", "cy_v", "cy_t", "cy_o", "cy_r", "cy_y">>,
     <<"s", "e", "r", "i", "e", "s">>,
     <<"cy_s", "cy_e", "cy_r", "cy_i", "cy_ya">>,
     <<"cy_s", "cy_e", "cy_r", "cy_i", "cy_i">>,
     <<"t", "i", "t", "l", "e">>,
     <<"cy_n", "cy_a", "cy_z", "cy_v", "cy_a", "cy_n", "cy_i", "cy_e">>,
     <<"a", "n", "n", "o", "t", "a", "t", "i", "o", "n">>,
     <<"cy_o", "cy_p", "cy_i", "cy_s", "cy_a", "cy_n", "cy_i", "cy_e">>,
     <<"d", "e", "s", "c", "r", "i", "p", "t", "i", "o", "n">>}

normalizeSearchField(field) ==
    LET f == ToLowerText(field)
    IN  IF f \in {<<"a", "u", "t", "h", "o", "r">>,
                  <<"a", "u", "t", "h", "o", "r", "s">>,
                  <<"cy_a", "cy_v", "cy_t", "cy_o", "cy_r">>,
                  <<"cy_a", "cy_v", "cy_t", "cy_o", "cy_r", "cy_y">>}
        THEN "authors"
        ELSE IF f \in {<<"s", "e", "r", "i", "e", "s">>,
                       <<"cy_s", "cy_e", "cy_r", "cy_i", "cy_ya">>,
                       <<"cy_s", "cy_e", "cy_r", "cy_i", "cy_i">>}
        THEN "series"
        ELSE IF f \in {<<"t", "i", "t", "l", "e">>,
                       <<"cy_n", "cy_a", "cy_z", "cy_v", "cy_a", "cy_n", "cy_i", "cy_e">>}
        THEN "title"
        ELSE IF f \in {<<"a", "n", "n", "o", "t", "a", "t", "i", "o", "n">>,
                       <<"cy_o", "cy_p", "cy_i", "cy_s", "cy_a", "cy_n", "cy_i", "cy_e">>,
                       <<"d", "e", "s", "c", "r", "i", "p", "t", "i", "o", "n">>}
        THEN "annotation"
        ELSE ""

\* \b at position p (before text[p]): a word character on exactly one side
WordBoundary(text, p) ==
    (p > 1 /\ IsWordChar(text[p - 1])) # (p <= Len(text) /\ IsWordChar(text[p]))

\* (?i)(author|...|description): at position p: the name that stands there,
\* in any case, with the colon after it
NamesAt(text, p) ==
    {n \in FieldNames :
        /\ p + Len(n) <= Len(text)
        /\ ToLowerText(SubSeq(text, p, p + Len(n) - 1)) = n
        /\ text[p + Len(n)] = ":"}

\* "([^"\\]|\\.)*" from the opening quote at position q: the position of the
\* closing quote, 0 when the text ends first
RECURSIVE QuotedEnd(_, _)
QuotedEnd(text, k) ==
    IF k > Len(text) THEN 0
    ELSE IF text[k] = "\"" THEN k
    ELSE IF text[k] = "\\" THEN (IF k + 1 > Len(text) THEN 0 ELSE QuotedEnd(text, k + 2))
    ELSE QuotedEnd(text, k + 1)

\* \S+ from position v: the position of its last character (v - 1: none)
RECURSIVE NonSpaceEnd(_, _)
NonSpaceEnd(text, v) ==
    IF v > Len(text) \/ IsSpace(text[v]) THEN v - 1 ELSE NonSpaceEnd(text, v + 1)

\* (variant for comparison: a value that runs to the end of the text when its
\* quote is not closed)
ValueEndToEnd(text, v) ==
    IF v <= Len(text) /\ text[v] = "\""
    THEN (IF QuotedEnd(text, v + 1) # 0 THEN QuotedEnd(text, v + 1) ELSE Len(text))
    ELSE NonSpaceEnd(text, v)

\* the value alternatives, the quoted one first
ValueEnd(text, v) ==
    IF v <= Len(text) /\ text[v] = "\"" /\ QuotedEnd(text, v + 1) # 0
    THEN QuotedEnd(text, v + 1)
    ELSE NonSpaceEnd(text, v)

\* (variant for comparison: a qualifier whose value may be empty)
MatchAtAnyValue(text, p) ==
    IF WordBoundary(text, p) /\ NamesAt(text, p) # {}
    THEN LET n == CHOOSE x \in NamesAt(text, p) : TRUE
             v == p + Len(n) + 1
         IN  <<[start |-> p, end |-> ValueEnd(text, v), fieldEnd |-> p + Len(n) - 1,
                valueStart |-> v]>>
    ELSE <<>>

\* the match of searchFieldRegex that starts at position p, if any
MatchAt(text, p) ==
    IF WordBoundary(text, p) /\ NamesAt(text, p) # {}
    THEN LET n == CHOOSE x \in NamesAt(text, p) : TRUE
             v == p + Len(n) + 1
         IN  IF ValueEnd(text, v) >= v
             THEN <<[start |-> p, end |-> ValueEnd(text, v), fieldEnd |-> p + Len(n) - 1,
                     valueStart |-> v]>>
             ELSE <<>>
    ELSE <<>>

\* FindAllStringSubmatchIndex: the leftmost matches, one after the other
RECURSIVE FindAll(_, _)
FindAll(text, p) ==
    IF p > Len(text) THEN <<>>
    ELSE IF MatchAt(text, p) # <<>>
    THEN MatchAt(text, p) \o FindAll(text, MatchAt(text, p)[1].end + 1)
    ELSE FindAll(text, p + 1)

RECURSIVE TrimLeft(_)
TrimLeft(text) ==
    IF text # <<>> /\ IsSpace(Head(text)) THEN TrimLeft(Tail(text)) ELSE text

RECURSIVE TrimRight(_)
TrimRight(text) ==
    IF text # <<>> /\ IsSpace(text[Len(text)])
    THEN TrimRight(SubSeq(text, 1, Len(text) - 1)) ELSE text

\* strings.TrimSpace
TrimSpace(text) == TrimRight(TrimLeft(text))

\* the loop of unquoteSearchValue over the content between the quotes
RECURSIVE Unescape(_, _)
Unescape(content, escaped) ==
    IF content = <<>> THEN (IF escaped THEN <<"\\">> ELSE <<>>)
    ELSE IF escaped THEN <<Head(content)>> \o Unescape(Tail(content), FALSE)
    ELSE IF Head(content) = "\\" THEN Unescape(Tail(content), TRUE)
    ELSE <<Head(content)>> \o Unescape(Tail(content), FALSE)

unquoteSearchValue(raw) ==
    LET trimmed == TrimSpace(raw)
    IN  IF Len(trimmed) >= 2 /\ trimmed[1] = "\"" /\ trimmed[Len(trimmed)] = "\""
        THEN Unescape(SubSeq(trimmed, 2, Len(trimmed) - 1), FALSE)
        ELSE trimmed

\* (variant for comparison: the run that ends the text is not flushed)
RECURSIVE TokenizeNoFlush(_, _)
TokenizeNoFlush(text, current) ==
    IF text = <<>> THEN <<>>
    ELSE IF IsLetterOrDigit(Head(text))
    THEN TokenizeNoFlush(Tail(text), Append(current, ToLowerChar(Head(text))))
    ELSE (IF current # <<>> THEN <<current>> ELSE <<>>) \o TokenizeNoFlush(Tail(text), <<>>)

\* tokenizeText: the lowercased runs of letters and digits
RECURSIVE Tokenize(_, _)
Tokenize(text, current) ==
    IF text = <<>> THEN (IF current # <<>> THEN <<current>> ELSE <<>>)
    ELSE IF IsLetterOrDigit(Head(text))
    THEN Tokenize(Tail(text), Append(current, ToLowerChar(Head(text))))
    ELSE (IF current # <<>> THEN <<current>> ELSE <<>>) \o Tokenize(Tail(text), <<>>)

tokenizeText(input) == Tokenize(input, <<>>)

EmptyQuery ==
    [Remainder |-> <<>>, GeneralTerms |-> <<>>, TitleTerms |-> <<>>,
     AuthorTerms |-> <<>>, SeriesTerms |-> <<>>, AnnotationTerms |-> <<>>]

\* the loop of parseSearchQuery over the matches
RECURSIVE ParseMatches(_, _, _, _)
ParseMatches(input, matches, last, result) ==
    IF matches = <<>>
    THEN LET rem == result.Remainder \o SubSeq(input, last, Len(input))
         IN  [result EXCEPT !.Remainder = rem, !.GeneralTerms = tokenizeText(rem)]
    ELSE LET m == Head(matches)
             field == normalizeSearchField(SubSeq(input, m.start, m.fieldEnd))
             tokens == tokenizeText(unquoteSearchValue(SubSeq(input, m.valueStart, m.end)))
             before == result.Remainder \o SubSeq(input, last, m.start - 1)
             r == [result EXCEPT !.Remainder = before]
         IN  ParseMatches(input, Tail(matches), m.end + 1,
                 CASE field = "title" -> [r EXCEPT !.TitleTerms = @ \o tokens]
                   [] field = "authors" -> [r EXCEPT !.AuthorTerms = @ \o tokens]
                   [] field = "series" -> [r EXCEPT !.SeriesTerms = @ \o tokens]
                   [] field = "annotation" -> [r EXCEPT !.AnnotationTerms = @ \o tokens]
                   [] OTHER -> [r EXCEPT !.Remainder = @ \o SubSeq(input, m.start, m.end)])

parseSearchQuery(input) ==
    IF TrimSpace(input) = <<>> THEN EmptyQuery
    ELSE IF FindAll(input, 1) = <<>>
    THEN [EmptyQuery EXCEPT !.Remainder = input, !.GeneralTerms = tokenizeText(input)]
    ELSE ParseMatches(input, FindAll(input, 1), 1, EmptyQuery)

\* Queries: what stands before the qualifier, the field name in three letter
\* cases, the value, what stands after
ToUpperText(text) == [i \in 1 .. Len(text) |-> ToUpperChar(text[i])]
Capitalized(text) == <<ToUpperChar(Head(text))>> \o Tail(text)

QueryPrefixes == {<<>>, <<"x", " ">>, <<"x">>}
QueryNames == UNION {{n, ToUpperText(n), Capitalized(n)} : n \in FieldNames}
QueryValues ==
    {<<"cy_i", "cy_v">>, <<"I", "v", "1">>, <<"\"", "a", " ", "CY_I", "\"">>}
QuerySuffixes == {<<>>, <<" ", "z">>}

QueryInputs ==
    [prefix : QueryPrefixes, name : QueryNames, value : QueryValues,
     suffix : QuerySuffixes]

QueryText(in) == in.prefix \o in.name \o <<":">> \o in.value \o in.suffix

NoInput == [prefix |-> <<>>, name |-> <<>>, value |-> <<>>, suffix |-> <<>>]

\* a request's free-text query reaches parseSearchQuery
ParseQuery ==
    /\ pq.parsed = <<>>
    /\ pq' = [pq EXCEPT !.parsed = <<parseSearchQuery(pq.query)>>]
    /\ UNCHANGED <<db, ftsFresh, conn, freeConn, writer, th, hist, ncalls, faults, feed>>

\* (variant for comparison: repeated tokens are kept)
uniqueTokensKeepAll(tokens) == tokens

RECURSIVE uniqueTokens(_)
uniqueTokens(tokens) ==
    IF tokens = <<>> THEN <<>>
    ELSE LET rest == uniqueTokens(SubSeq(tokens, 1, Len(tokens) - 1))
             token == tokens[Len(tokens)]
         IN  IF token = <<>> \/ InSeq(rest, token) THEN rest ELSE Append(rest, token)

formatFTSToken(token) ==
    IF token = <<>> THEN <<>>
    ELSE IF token[Len(token)] = "*" THEN token
    ELSE token \o <<"*">>

\* the columns of books_fts a general token is looked up in, as they are
\* written in an expression: title, annotation, authors, series
ftsSearchableColumns ==
    <<<<"t", "i", "t", "l", "e">>,
      <<"a", "n", "n", "o", "t", "a", "t", "i", "o", "n">>,
      <<"a", "u", "t", "h", "o", "r", "s">>,
      <<"s", "e", "r", "i", "e", "s">>>>

buildGeneralFTSClause(tokens) ==
    LET unique == uniqueTokens(tokens)
        columnClauses(token) ==
            [c \in 1 .. Len(ftsSearchableColumns) |->
                ftsSearchableColumns[c] \o <<":">> \o formatFTSToken(token)]
        perToken == [k \in 1 .. Len(unique) |->
                        <<"(">> \o Join(columnClauses(unique[k]), <<" ", "O", "R", " ">>)
                            \o <<")">>]
    IN  IF Len(unique) = 0 THEN <<>> ELSE Join(perToken, <<" ", "A", "N", "D", " ">>)

buildFieldFTSClause(field, tokens) ==
    LET unique == uniqueTokens(tokens)
        parts == [k \in 1 .. Len(unique) |-> field \o <<":">> \o formatFTSToken(unique[k])]
    IN  IF Len(unique) = 0 THEN <<>> ELSE Join(parts, <<" ", "A", "N", "D", " ">>)

\* (variant for comparison: the field clauses are left out)
buildFTSExpressionGeneral(q) == buildGeneralFTSClause(q.GeneralTerms)

buildFTSExpression(q) ==
    LET all == <<buildGeneralFTSClause(q.GeneralTerms),
                 buildFieldFTSClause(<<"t", "i", "t", "l", "e">>, q.TitleTerms),
                 buildFieldFTSClause(<<"a", "u", "t", "h", "o", "r", "s">>, q.AuthorTerms),
                 buildFieldFTSClause(<<"s", "e", "r", "i", "e", "s">>, q.SeriesTerms),
                 buildFieldFTSClause(<<"a", "n", "n", "o", "t", "a", "t", "i", "o", "n">>,
                                     q.AnnotationTerms)>>
        clauses == SelectSeq(all, LAMBDA clause : clause # <<>>)
    IN  Join(clauses, <<" ", "A", "N", "D", " ">>)

\* TrimSpace, then every run of spaces written as one space
normalizeWhitespace(input) ==
    LET trimmed == TrimSpace(input)
        kept == {i \in 1 .. Len(trimmed) :
                    ~(IsSpace(trimmed[i]) /\ i > 1 /\ IsSpace(trimmed[i - 1]))}
    IN  [k \in 1 .. Cardinality(kept) |->
            LET i == CHOOSE x \in kept : Cardinality({y \in kept : y <= x}) = k
            IN  IF IsSpace(trimmed[i]) THEN " " ELSE trimmed[i]]

prepareFTSSearch(input) ==
    LET result(parsed, fallback) ==
            [ftsExpr |-> buildFTSExpression(parsed),
             fallback |-> IF fallback = <<>> /\ Len(parsed.GeneralTerms) > 0
                          THEN Join(uniqueTokens(parsed.GeneralTerms), <<" ">>)
                          ELSE fallback]
        prepare(parsed) == result(parsed, normalizeWhitespace(parsed.Remainder))
    IN  prepare(parseSearchQuery(input))

\* strings.Split, as the engine's reading of an expression's AND and OR
RECURSIVE SplitOn(_, _)
SplitOn(text, sep) ==
    LET at == {i \in 1 .. (Len(text) - Len(sep) + 1) :
                  SubSeq(text, i, i + Len(sep) - 1) = sep}
        i == CHOOSE x \in at : \A y \in at : x <= y
    IN  IF at = {} THEN <<text>>
        ELSE <<SubSeq(text, 1, i - 1)>> \o SplitOn(SubSeq(text, i + Len(sep), Len(text)), sep)

\* books_fts MATCH ?: the expressions buildFTSExpression writes, evaluated on a
\* row of books_fts (FTS5: AND of groups, OR inside parentheses, a column
\* filter <column>:<token>*, which holds when a word of the column starts with
\* the token). The engine's tokenizer cuts the columns into lowercased runs
\* of letters and numbers; a number to it is a digit and also a character
\* such as the superscript two, which unicode.IsDigit does not accept.
FTSMatch(expr, row) ==
    LET TokenChar(c) == IsLetterOrDigit(c) \/ c = "SUP2"
        StartsWord(text, i, prefix) ==
            /\ i = 1 \/ ~TokenChar(text[i - 1])
            /\ i + Len(prefix) - 1 <= Len(text)
            /\ \A j \in 1 .. Len(prefix) : ToLowerChar(text[i + j - 1]) = prefix[j]
        TermMatches(term) ==
            LET colon == CHOOSE i \in 1 .. Len(term) :
                            term[i] = ":" /\ \A j \in 1 .. (i - 1) : term[j] # ":"
                column == SubSeq(term, 1, colon - 1)
                text == CASE column = ftsSearchableColumns[1] -> row.title
                          [] column = ftsSearchableColumns[2] -> row.annotation
                          [] column = ftsSearchableColumns[3] -> row.authors
                          [] column = ftsSearchableColumns[4] -> row.series
            IN  \E i \in 1 .. Len(text) :
                    StartsWord(text, i, SubSeq(term, colon + 1, Len(term) - 1))
    IN  \A g \in 1 .. Len(SplitOn(expr, <<" ", "A", "N", "D", " ">>)) :
            LET group == SplitOn(expr, <<" ", "A", "N", "D", " ">>)[g]
                inner == IF Head(group) = "(" THEN SubSeq(group, 2, Len(group) - 1)
                         ELSE group
            IN  \E o \in 1 .. Len(SplitOn(inner, <<" ", "O", "R", " ">>)) :
                    TermMatches(SplitOn(inner, <<" ", "O", "R", " ">>)[o])

\* Free-form queries: up to MaxPieces pieces, one after the other
MaxPieces == 3

Piece ==
    [word |-> <<"a">>, upper |-> <<"B", "CY_I", "1">>, space |-> <<" ">>,
     dash |-> <<"-">>, quote |-> <<"\"">>,
     unknown |-> <<"x", ":", "a">>, title |-> <<"t", "i", "t", "l", "e", ":">>,
     unterminated |-> <<"a", "u", "t", "h", "o", "r", ":", "\"", "T", "w">>]

RECURSIVE PiecesUpTo(_)
PiecesUpTo(n) ==
    IF n = 0 THEN {<<>>}
    ELSE PiecesUpTo(n - 1)
           \cup {Append(s, x) : s \in {r \in PiecesUpTo(n - 1) : Len(r) = n - 1}, x \in {Piece[k] : k \in DOMAIN Piece}}

RECURSIVE Concat(_)
Concat(pieces) == IF pieces = <<>> THEN <<>> ELSE Head(pieces) \o Concat(Tail(pieces))

\* a text reaches tokenizeText
TokenizeQuery ==
    /\ pq.tokens = <<>> /\ pq.parsed = <<>>
    /\ pq' = [pq EXCEPT !.tokens = <<tokenizeText(pq.query)>>]
    /\ UNCHANGED <<db, ftsFresh, conn, freeConn, writer, th, hist, ncalls, faults, feed>>

\* a request's free-text query reaches prepareFTSSearch
PrepareSearch ==
    /\ pq.prepared = <<>> /\ pq.parsed # <<>>
    /\ pq' = [pq EXCEPT !.prepared = <<prepareFTSSearch(pq.query)>>]
    /\ UNCHANGED <<db, ftsFresh, conn, freeConn, writer, th, hist, ncalls, faults, feed>>

----------------------------------------------------------------------------
\* Repository.SearchBooks

DefaultLimit == 30

Filters ==
    {[NoFilter EXCEPT !.Limit = l, !.Offset = o] : l \in {0, 1}, o \in {-1, 0, 1}}

sanitize(filter) ==
    [filter EXCEPT !.Limit = IF @ <= 0 THEN DefaultLimit ELSE @,
                   !.Offset = IF @ < 0 THEN 0 ELSE @]

\* (variant for comparison: the direction is compared as written)
buildOrderClauseExact(sortBy, sortOrder, hasFTS) ==
    LET by == IF sortBy = "" /\ hasFTS THEN "relevance" ELSE sortBy
    IN  [column |-> CASE by = "year" -> "b.year"
                      [] by = "date_added" -> "b.date_added"
                      [] by = "relevance" -> IF hasFTS THEN "bm25(books_fts)" ELSE "b.title"
                      [] OTHER -> "b.title",
         direction |-> IF sortOrder = <<"d", "e", "s", "c">> THEN "DESC" ELSE "ASC"]

\* sortOrder is a text (a sequence of characters), sortBy a name
buildOrderClause(sortBy, sortOrder, hasFTS) ==
    LET by == IF sortBy = "" /\ hasFTS THEN "relevance" ELSE sortBy
    IN  [column |-> CASE by = "year" -> "b.year"
                      [] by = "date_added" -> "b.date_added"
                      [] by = "relevance" -> IF hasFTS THEN "bm25(books_fts)" ELSE "b.title"
                      [] OTHER -> "b.title",
         direction |-> IF ToLowerText(sortOrder) = <<"d", "e", "s", "c">> THEN "DESC" ELSE "ASC"]

\* addAuthorJoin: the join pair, once
\* (variant for comparison: the pair is appended at every call)
addAuthorJoinAgain(st) ==
    [st EXCEPT !.joins = @ \o <<"book_authors ba", "authors a">>, !.joinedAuthors = TRUE]

addAuthorJoin(st) ==
    IF ~st.joinedAuthors
    THEN [st EXCEPT !.joins = @ \o <<"book_authors ba", "authors a">>,
                    !.joinedAuthors = TRUE]
    ELSE st

\* (variant for comparison: the LIKE condition is added beside the MATCH one)
textConditionBoth(st, query) ==
    LET fts(p) == IF p.ftsExpr # <<>>
                  THEN [st EXCEPT !.hasFTS = TRUE, !.joins = @ \o <<"books_fts">>,
                                  !.conditions = Append(@, [kind |-> "books_fts MATCH",
                                                            args |-> <<p.ftsExpr>>])]
                  ELSE st
        likes(like) == <<like, like, like, like>>
        both(p) ==
            IF p.fallback # <<>>
            THEN [addAuthorJoin(fts(p)) EXCEPT
                     !.conditions =
                        Append(@, [kind |-> "LIKE",
                                   args |-> likes(<<"%">> \o ToLowerText(p.fallback)
                                                       \o <<"%">>)])]
            ELSE fts(p)
    IN  IF TrimSpace(query) = <<>> THEN st ELSE both(prepareFTSSearch(query))

\* the free-text part of buildSearchSQL: MATCH on the expression, else LIKE on
\* the fallback
textCondition(st, query) ==
    LET likes(like) == <<like, like, like, like>>
        condition(ftsQuery, fallback) ==
            IF ftsQuery # <<>>
            THEN [st EXCEPT !.hasFTS = TRUE, !.joins = @ \o <<"books_fts">>,
                            !.conditions = Append(@, [kind |-> "books_fts MATCH",
                                                      args |-> <<ftsQuery>>])]
            ELSE IF fallback # <<>>
            THEN [addAuthorJoin(st) EXCEPT
                     !.conditions =
                        Append(@, [kind |-> "LIKE",
                                   args |-> likes(<<"%">> \o ToLowerText(fallback)
                                                       \o <<"%">>)])]
            ELSE st
        prepared(p) == condition(p.ftsExpr, p.fallback)
    IN  IF TrimSpace(query) = <<>> THEN st ELSE prepared(prepareFTSSearch(query))

\* buildSearchSQL: the page statement and the count statement, as their joins
\* (after the two LEFT JOINs on series and genres), their conditions with
\* their arguments, GROUP BY b.id, ORDER BY and LIMIT ? OFFSET ?
buildSearchSQL(filter) ==
    LET limit == IF filter.Limit <= 0 THEN DefaultLimit ELSE filter.Limit
        offset == IF filter.Offset < 0 THEN 0 ELSE filter.Offset
        in(st, column, values) ==
            IF Len(values) > 0
            THEN [st EXCEPT !.conditions = Append(@, [kind |-> column, args |-> values])]
            ELSE st
        year(st, column, value) ==
            IF value > 0
            THEN [st EXCEPT !.conditions = Append(@, [kind |-> column, args |-> <<value>>])]
            ELSE st
        authors(st) ==
            IF Len(filter.Authors) > 0
            THEN in(addAuthorJoin(st), "a.name IN", filter.Authors) ELSE st
        baseArgs(st) == Concat([i \in 1 .. Len(st.conditions) |-> st.conditions[i].args])
        statements(st) ==
            [joinedAuthors |-> st.joinedAuthors, hasFTS |-> st.hasFTS,
             joins |-> st.joins, conditions |-> st.conditions,
             groupBy |-> st.joinedAuthors,
             order |-> buildOrderClause(filter.SortBy, filter.SortOrder, st.hasFTS),
             limit |-> limit, offset |-> offset,
             queryArgs |-> baseArgs(st) \o <<limit, offset>>,
             count |-> [joins |-> st.joins, conditions |-> st.conditions,
                        groupBy |-> FALSE, paged |-> FALSE, args |-> baseArgs(st)]]
    IN  statements(
          year(year(in(in(in(in(authors(
                textCondition([joins |-> <<"series s", "genres g">>, conditions |-> <<>>,
                               joinedAuthors |-> FALSE, hasFTS |-> FALSE], filter.Query)),
             "s.name IN", filter.Series),
             "g.name IN", filter.Genres),
             "b.language IN", filter.Languages),
             "b.format IN", filter.Formats),
             "b.year >=", filter.YearFrom),
             "b.year <=", filter.YearTo))

\* pattern LIKE text in SQLite: % stands for any run of characters, _ for any
\* one character, ASCII letters match in either case
RECURSIVE LikeMatch(_, _)
LikeMatch(pattern, text) ==
    IF pattern = <<>> THEN text = <<>>
    ELSE IF Head(pattern) = "%"
    THEN LikeMatch(Tail(pattern), text) \/ (text # <<>> /\ LikeMatch(pattern, Tail(text)))
    ELSE IF text = <<>> THEN FALSE
    ELSE IF Head(pattern) = "_" THEN LikeMatch(Tail(pattern), Tail(text))
    ELSE LET fold(c) == IF InSeq(AsciiUpperSeq, c)
                        THEN AsciiLowerSeq[IndexIn(AsciiUpperSeq, c)] ELSE c
         IN  fold(Head(pattern)) = fold(Head(text)) /\ LikeMatch(Tail(pattern), Tail(text))

\* the rows a statement's joins and conditions select: a book b, with the id a
\* of one of its authors under the author join (NullID: no author) and the
\* position f of one of its rows of books_fts under the full-text join
Matching(d, sql) ==
    LET authorIDs(b) == {ba.author_id : ba \in {x \in d.book_authors : x.book_id = b.id}}
        A(b) == IF ~InSeq(sql.joins, "authors a") \/ authorIDs(b) = {} THEN {NullID}
                ELSE authorIDs(b)
        F(b) == IF ~InSeq(sql.joins, "books_fts") THEN {0}
                ELSE {i \in 1 .. Len(d.books_fts) : d.books_fts[i].book_id = b.id}
        lower(text) == [i \in 1 .. Len(text) |->
                           IF InSeq(AsciiUpperSeq, text[i])
                           THEN AsciiLowerSeq[IndexIn(AsciiUpperSeq, text[i])] ELSE text[i]]
        name(rows, id) == IF \E x \in rows : x.id = id
                          THEN <<(CHOOSE x \in rows : x.id = id).name>> ELSE <<>>
        among(values, v) == v # <<>> /\ \E i \in 1 .. Len(values) : values[i] = v[1]
        holds(c, r) ==
            CASE c.kind = "books_fts MATCH" -> FTSMatch(c.args[1], d.books_fts[r.f])
              [] c.kind = "LIKE" ->
                    \/ LikeMatch(c.args[1], lower(r.b.title))
                    \/ LikeMatch(c.args[2], lower(r.b.annotation))
                    \/ \E n \in {name(d.authors, r.a)} :
                          n # <<>> /\ LikeMatch(c.args[3], lower(n[1]))
                    \/ \E n \in {name(d.series, r.b.series_id)} :
                          n # <<>> /\ LikeMatch(c.args[4], lower(n[1]))
              [] c.kind = "a.name IN" -> among(c.args, name(d.authors, r.a))
              [] c.kind = "s.name IN" -> among(c.args, name(d.series, r.b.series_id))
              [] c.kind = "g.name IN" -> among(c.args, name(d.genres, r.b.genre_id))
              [] c.kind = "b.language IN" -> among(c.args, <<r.b.language>>)
              [] c.kind = "b.format IN" -> among(c.args, <<r.b.format>>)
              [] c.kind = "b.year >=" -> r.b.year >= c.args[1]
              [] c.kind = "b.year <=" -> r.b.year <= c.args[1]
    IN  {r \in UNION {[b : {b}, a : A(b), f : F(b)] : b \in d.books} :
            \A i \in 1 .. Len(sql.conditions) : holds(sql.conditions[i], r)}

\* SELECT COUNT(DISTINCT b.id)
\* (variant for comparison: counting the rows of books_fts)
CountFTSRows(d, sql) == Len(d.books_fts)

CountQuery(d, sql) == Cardinality({r.b.id : r \in Matching(d, sql)})

\* ORDER BY <column>; the rank bm25(books_fts) is not computed: any order of
\* the rows is taken to be in rank order
ColumnLeq(a, b, column) ==
    CASE column = "b.year" -> a.year <= b.year
      [] column = "b.date_added" -> a.date_added <= b.date_added
      [] column = "bm25(books_fts)" -> TRUE
      [] OTHER -> TextLeq(a.title, b.title)

\* the row orders the page statement admits: with GROUP BY b.id one row for
\* every selected book, else every selected row; keys in order (rows with
\* equal keys come in any order)
RowOrders(d, sql) ==
    LET S == IF sql.groupBy
             THEN {[b |-> x, a |-> NullID, f |-> 0] : x \in {r.b : r \in Matching(d, sql)}}
             ELSE Matching(d, sql)
        Leq(a, b) == IF sql.order.direction = "DESC"
                     THEN ColumnLeq(b, a, sql.order.column)
                     ELSE ColumnLeq(a, b, sql.order.column)
    IN  {[i \in 1 .. Cardinality(S) |-> s[i].b] :
            s \in {x \in [1 .. Cardinality(S) -> S] :
                     \A i, j \in 1 .. Cardinality(S) :
                        i < j => x[i] # x[j] /\ Leq(x[i].b, x[j].b)}}

\* (variant for comparison: one row more than the limit)
PageOfOneMore(s, limit, offset) ==
    SubSeq(s, offset + 1, IF offset + limit + 1 < Len(s) THEN offset + limit + 1 ELSE Len(s))

\* LIMIT ? OFFSET ?
PageOf(s, limit, offset) ==
    SubSeq(s, offset + 1, IF offset + limit < Len(s) THEN offset + limit ELSE Len(s))

scanBook(d, row) ==
    [ID |-> row.id, Title |-> row.title,
     Series |-> IF row.series_id # NullID /\ \E x \in d.series : x.id = row.series_id
                THEN <<[ID |-> row.series_id,
                        Name |-> (CHOOSE x \in d.series : x.id = row.series_id).name]>>
                ELSE <<>>,
     SeriesNum |-> row.series_num,
     Genre |-> IF row.genre_id # NullID /\ \E x \in d.genres : x.id = row.genre_id
               THEN <<[ID |-> row.genre_id,
                       Name |-> (CHOOSE x \in d.genres : x.id = row.genre_id).name]>>
               ELSE <<>>,
     Year |-> row.year, Language |-> row.language, FileSize |-> row.file_size,
     ArchivePath |-> row.archive_path, FileNum |-> row.file_num,
     Format |-> row.format, DateAdded |-> row.date_added, Rating |-> row.rating,
     Annotation |-> row.annotation, Authors |-> NilSlice]

\* getBookAuthors: ... JOIN book_authors ... WHERE ba.book_id = ? ORDER BY a.name
getBookAuthors(d, bookID) ==
    LET found == {a \in d.authors :
                    \E ba \in d.book_authors : ba.book_id = bookID /\ ba.author_id = a.id}
        rows == CHOOSE s \in [1 .. Cardinality(found) -> found] :
                    \A i, j \in 1 .. Cardinality(found) :
                        i < j => s[i] # s[j] /\ TextLeq(s[i].name, s[j].name)
    IN  IF found = {} THEN NilSlice
        ELSE Slice([i \in 1 .. Len(rows) |-> [ID |-> rows[i].id, Name |-> rows[i].name]])

SearchBooksCall(t, filter) ==
    /\ CanCall(t)
    /\ ncalls' = ncalls + 1
    /\ hist' = HistAtCall(t)
    /\ th' = [th EXCEPT ![t] = [IdleThread EXCEPT !.pc = "srch_count", !.op = "search",
                                                  !.filter = sanitize(filter)]]
    /\ UNCHANGED <<db, ftsFresh, conn, freeConn, writer, pq, faults, feed>>

\* the count statement, a pool-level QueryRow
SrchCount(t) ==
    /\ th[t].pc = "srch_count"
    /\ CanConnect
    /\ \E ok \in MayFail :
         /\ Fault(ok)
         /\ th' = [th EXCEPT ![t] =
                     IF ok
                     THEN [@ EXCEPT !.pc = "srch_query",
                                    !.total = CountQuery(db, buildSearchSQL(th[t].filter))]
                     ELSE Returned("search", <<>>, FALSE, TRUE, NoResult)]
    /\ conn' = TakenConn
    /\ freeConn' = ExecFree
    /\ UNCHANGED <<db, ftsFresh, writer, hist, ncalls, pq, feed>>

\* the page statement fails
SrchQueryError(t) ==
    /\ th[t].pc = "srch_query"
    /\ faults < MaxFaults
    /\ faults' = faults + 1
    /\ th' = [th EXCEPT ![t] = Returned("search", <<>>, FALSE, TRUE, NoResult)]
    /\ UNCHANGED <<db, ftsFresh, conn, freeConn, writer, hist, ncalls, pq, feed>>

\* the page statement: its rows hold a connection until they are closed.
\* The engine fails a statement that ranks by bm25(books_fts) under GROUP BY
\* as soon as a row is selected ("unable to use function bm25 in the
\* requested context"); SearchBooks then returns the error.
SrchQuery(t) ==
    /\ th[t].pc = "srch_query"
    /\ CanConnect
    /\ \E sql \in {buildSearchSQL(th[t].filter)} :
          IF sql.groupBy /\ sql.order.column = "bm25(books_fts)" /\ Matching(db, sql) # {}
          THEN /\ th' = [th EXCEPT ![t] = Returned("search", <<>>, FALSE, TRUE, NoResult)]
               /\ freeConn' = ExecFree
          ELSE /\ \E s \in RowOrders(db, sql) :
                    th' = [th EXCEPT ![t].pc = "srch_scan", ![t].txConn = TopConn,
                                     ![t].rows = PageOf(s, sql.limit, sql.offset)]
               /\ freeConn' = TakenFree
    /\ conn' = TakenConn
    /\ UNCHANGED <<db, ftsFresh, writer, hist, ncalls, pq, faults, feed>>

\* one turn of the rows loop: scanBook, then getBookAuthors on a second connection
SrchScan(t) ==
    /\ th[t].pc = "srch_scan"
    /\ th[t].rows # <<>>
    /\ CanConnect
    /\ th' = [th EXCEPT ![t].rows = Tail(@),
                        ![t].scanned =
                            Append(@, [scanBook(db, Head(th[t].rows)) EXCEPT
                                          !.Authors = getBookAuthors(db, Head(th[t].rows).id)])]
    /\ conn' = TakenConn
    /\ freeConn' = ExecFree
    /\ UNCHANGED <<db, ftsFresh, writer, hist, ncalls, pq, faults, feed>>

\* rows are exhausted and closed; the BookList is returned
SrchReturn(t) ==
    /\ th[t].pc = "srch_scan"
    /\ th[t].rows = <<>>
    /\ th' = [th EXCEPT ![t] =
                Returned("search", <<>>, FALSE, FALSE,
                         [Books |-> IF @.scanned = <<>> THEN NilSlice ELSE Slice(@.scanned),
                          Total |-> @.total, Limit |-> @.filter.Limit,
                          Offset |-> @.filter.Offset,
                          HasMore |-> @.filter.Offset + @.filter.Limit < @.total])]
    /\ conn' = ReleasedConn(conn, freeConn, th[t].txConn)
    /\ freeConn' = ReleasedFree(freeConn, th[t].txConn)
    /\ UNCHANGED <<db, ftsFresh, writer, hist, ncalls, pq, faults, feed>>

\* the requests that carry one free-form query: with or without an author
\* filter and, for a query of up to MaxSortedPieces pieces, with every sort
\* key and direction
MaxSortedPieces == 2

QueryFilters(input) ==
    {[NoFilter EXCEPT !.Query = Concat(input), !.Authors = authors] :
        authors \in {<<>>, <<Ann>>}}
        \cup IF Len(input) <= MaxSortedPieces
             THEN {[NoFilter EXCEPT !.Query = Concat(input), !.SortBy = by,
                                    !.SortOrder = ord] :
                      by \in {"", "title", "year", "date_added", "relevance", "Year"},
                      ord \in {<<>>, <<"d", "e", "s", "c">>, <<"D", "E", "S", "C">>,
                               <<"a", "s", "c">>, <<"d", "e", "s", "c", " ">>}}
             ELSE {}

\* a request's filter reaches buildSearchSQL
BuildStatements ==
    /\ pq.sql = <<>> /\ pq.prepared # <<>>
    /\ \E filter \in QueryFilters(pq.input) :
          pq' = [pq EXCEPT !.filter = <<filter>>, !.sql = <<buildSearchSQL(filter)>>]
    /\ UNCHANGED <<db, ftsFresh, conn, freeConn, writer, th, hist, ncalls, faults, feed>>

----------------------------------------------------------------------------
\* The OPDS feed of the newest books (Handler.NewBooks, Builder.BuildBooksFeed)

\* pageSize := 30
pageSize == 30

\* the books of the largest catalog an OPDS client reads, and the feeds it asks for
MaxTotal == 65
MaxPage == 5

\* strconv.Itoa on a number that is not negative
RECURSIVE Itoa(_)
Itoa(n) ==
    LET digit(d) == <<"0", "1", "2", "3", "4", "5", "6", "7", "8", "9">>[d + 1]
    IN  IF n < 10 THEN <<digit(n)>> ELSE Append(Itoa(n \div 10), digit(n % 10))

\* before the first request; catalog is the number of books in the books table
NoFeed == [catalog |-> 0, served |-> 0, request |-> <<>>, page |-> 0,
           Links |-> <<>>, Entries |-> <<>>]

\* the page parameter of an address (empty: none) read with strconv.Atoi:
\* 1 unless it is a number of digits that is 1 or more
getPageFromQuery(url) ==
    LET RECURSIVE Atoi(_)
        Atoi(text) ==
            IF text = <<>> THEN [err |-> TRUE, n |-> 0]
            ELSE LET last == text[Len(text)]
                     lead == IF Len(text) = 1 THEN [err |-> FALSE, n |-> 0]
                             ELSE Atoi(SubSeq(text, 1, Len(text) - 1))
                 IN  IF lead.err \/ (\A d \in 0 .. 9 : Itoa(d) # <<last>>)
                     THEN [err |-> TRUE, n |-> 0]
                     ELSE [err |-> FALSE,
                           n |-> lead.n * 10 + (CHOOSE d \in 0 .. 9 : Itoa(d) = <<last>>)]
        page == Atoi(url.page)
    IN  IF url.page = <<>> \/ page.err \/ page.n < 1 THEN 1 ELSE page.n

\* url.Parse, q.Set("page", strconv.Itoa(page)), u.String()
buildPageURL(baseURL, page) == [path |-> baseURL.path, page |-> Itoa(page)]

\* SearchBooks with a filter that has no condition, over a table of total
\* books: the count is the table's, the page is the rows from offset + 1 on,
\* at most limit of them, in the order of the statement (here: their rank)
searchPage(total, limit, offset) ==
    LET last == IF total < offset + limit THEN total ELSE offset + limit
    IN  [Books |-> [i \in 1 .. (IF last > offset THEN last - offset ELSE 0) |-> offset + i],
         Total |-> total]

BuildBooksFeed(books, feedID, page, totalBooks) ==
    LET opds == [path |-> "/opds", page |-> <<>>]
        head == <<[Rel |-> "self", Type |-> "acquisition", Href |-> feedID],
                  [Rel |-> "start", Type |-> "navigation", Href |-> opds],
                  [Rel |-> "up", Type |-> "navigation", Href |-> opds]>>
        prev == IF page > 1
                THEN <<[Rel |-> "prev", Type |-> "acquisition",
                        Href |-> buildPageURL(feedID, page - 1)]>>
                ELSE <<>>
        \* pageSize := len(books)
        next == IF page * Len(books) < totalBooks
                THEN <<[Rel |-> "next", Type |-> "acquisition",
                        Href |-> buildPageURL(feedID, page + 1)]>>
                ELSE <<>>
    IN  [ID |-> feedID, Links |-> head \o prev \o next, Entries |-> books]

\* Handler.NewBooks, for a request of the address url
NewBooks(url) ==
    LET page == getPageFromQuery(url)
        result == searchPage(feed.catalog, pageSize, (page - 1) * pageSize)
        feedID == [path |-> "/opds/books/new",
                   page |-> IF page > 1 THEN Itoa(page) ELSE <<>>]
        built == BuildBooksFeed(result.Books, feedID, page, result.Total)
    IN  /\ feed' = [feed EXCEPT !.served = @ + 1, !.request = <<url>>, !.page = page,
                                !.Links = built.Links, !.Entries = built.Entries]
        /\ UNCHANGED <<db, ftsFresh, conn, freeConn, writer, th, hist, ncalls, pq, faults>>

----------------------------------------------------------------------------
\* The specifications

NoParse == [input |-> NoInput, query |-> <<>>, parsed |-> <<>>]

InitRepo ==
    /\ db = EmptyDB
    /\ ftsFresh = FALSE
    /\ conn = [c \in ConnIds |-> IF c = 1 THEN OpenedConn ELSE ClosedConn]
    /\ freeConn = <<1>>
    /\ writer = NoThread
    /\ th = [t \in Threads |-> IdleThread]
    /\ hist = [atCall |-> [t \in Threads |-> [db |-> EmptyDB, fresh |-> FALSE]],
               lastRec |-> [id \in BookIDs |-> <<>>],
               sinceClear |-> [known |-> FALSE, inserts |-> 0, batch |-> <<>>]]
    /\ ncalls = 0

Init == InitRepo /\ feed = NoFeed /\ faults = 0 /\ pq = NoParse

\* one request at a time
Next ==
    \/ \E b \in Batches : InsertBooksCall("t1", b)
    \/ InsCapture("t1")
    \/ InsSetPragma("t1")
    \/ InsSetJournal("t1")
    \/ InsBegin("t1")
    \/ InsSwap("t1")
    \/ InsPrepare("t1")
    \/ InsRecord("t1")
    \/ InsCommit("t1")
    \/ InsRollback("t1")
    \/ InsRestore("t1")
    \/ InsReturn("t1")
    \/ ClearAllBooksCall("t1")
    \/ ClrBegin("t1")
    \/ ClrExec("t1")
    \/ ClrCommit("t1")
    \/ ClrStore("t1")
    \/ ClrRollback("t1")
    \/ \E f \in Filters : SearchBooksCall("t1", f)
    \/ SrchCount("t1")
    \/ SrchQueryError("t1")
    \/ SrchQuery("t1")
    \/ SrchScan("t1")
    \/ SrchReturn("t1")

Spec == Init /\ [][Next]_vars

\* Two requests at a time (the HTTP server runs every request, a reindex
\* included, in its own goroutine): thread t1 reindexes (ClearAllBooks, then
\* InsertBooks) and thread t2 serves one request of any kind meanwhile.
\* Imports carry one record, and the engine fails no statement but for the
\* busy write lock.
ConcBatches == {<<BookA1>>}
ConcFilter == NoFilter

InitConc == InitRepo /\ feed = NoFeed /\ faults = MaxFaults /\ pq = NoParse

MayClear(t) == th[t].pc = "idle"
MayInsert(t) == IF t = "t1" THEN th[t].pc = "done" /\ th[t].op = "clear" ELSE th[t].pc = "idle"
MaySearch(t) == t = "t2" /\ th[t].pc = "idle"

NextConc ==
    \E t \in Threads :
        \/ MayInsert(t) /\ \E b \in ConcBatches : InsertBooksCall(t, b)
        \/ InsCapture(t)
        \/ InsSetPragma(t)
        \/ InsSetJournal(t)
        \/ InsBegin(t)
        \/ InsSwap(t)
        \/ InsPrepare(t)
        \/ InsRecord(t)
        \/ InsBusy(t)
        \/ InsCommit(t)
        \/ InsRollback(t)
        \/ InsRestore(t)
        \/ InsReturn(t)
        \/ MayClear(t) /\ ClearAllBooksCall(t)
        \/ ClrBegin(t)
        \/ ClrExec(t)
        \/ ClrBusy(t)
        \/ ClrCommit(t)
        \/ ClrStore(t)
        \/ ClrRollback(t)
        \/ MaySearch(t) /\ SearchBooksCall(t, ConcFilter)
        \/ SrchCount(t)
        \/ SrchQuery(t)
        \/ SrchScan(t)
        \/ SrchReturn(t)

SpecConc == InitConc /\ [][NextConc]_vars

\* The parser alone, on one query
InitParse ==
    /\ InitRepo /\ feed = NoFeed /\ faults = 0
    /\ \E in \in QueryInputs : pq = [input |-> in, query |-> QueryText(in), parsed |-> <<>>]

NextParse == ParseQuery

SpecParse == InitParse /\ [][NextParse]_vars

\* Searches of a catalog: the catalog is what InsertBooks of one batch leaves
\* in an empty database, without (first import) or with (import after
\* ClearAllBooks) the skipped full-text DELETE
BookC ==
    Book("b3", <<"Z", "-", "d">>, <<>>, <<>>, 0, "", 2020, "en",
         400, "arc3", "004", "pdf", 1, 0, <<>>)

BookD ==
    Book("b4", <<"O", "d", "e">>, <<<<"I", "v", " ", "E", "y">>>>, <<"s", "u">>, 1, "poetry", 2001, "en",
         500, "arc4", "005", "fb2", 4, 0, <<"m", "y", " ", "w", "SUP2", "x">>)

RECURSIVE ImportAll(_, _, _, _)
ImportAll(d, books, caches, skipFTSDelete) ==
    IF books = <<>> THEN d
    ELSE LET r == insertBookTx(d, Head(books), caches, skipFTSDelete, "none")
         IN  ImportAll(r.db, Tail(books), r.caches, skipFTSDelete)

SearchCatalogs ==
    {ImportAll(EmptyDB, batch, EmptyCaches, skip) :
        batch \in {<<>>, <<BookA1>>, <<BookA1, BookA2>>, <<BookA1, BookB>>,
                   <<BookA1, BookB, BookC>>, <<BookC, BookB, BookA1>>,
                   <<BookD>>, <<BookA1, BookD>>},
        skip \in BOOLEAN}

SearchFilters ==
    {[NoFilter EXCEPT !.Query = q, !.Authors = a, !.Limit = l, !.Offset = o,
                      !.SortBy = by, !.SortOrder = ord] :
        q \in {<<>>, <<"k">>, <<"%">>, <<"_">>, <<"-">>}, a \in {<<>>, <<Ann>>},
        l \in {0, 1, 2}, o \in {-1, 0, 1, 2, 3}, by \in {"", "year"}, ord \in {<<>>, <<"d", "e", "s", "c">>}}
    \cup
    {[NoFilter EXCEPT !.Query = q] :
        q \in {<<"a", "u", "t", "h", "o", "r", ":", "a", "n", " ", "x">>,
              <<"a", "u", "t", "h", "o", "r", ":", "b", "o", " ", "k">>,
              <<"d", "e">>,
              <<"v", " ", "E">>,
              <<"y", " ", "w">>,
              <<"u">>,
              <<"m", "y", " ", "w">>, <<"w", "SUP2", "x">>,
              <<"O", "d">>,
              <<"o", "d", "e">>,
              <<"i", "v">>,
              <<"E", "y">>,
              <<"s", "u">>,
              <<"m", "y">>,
              <<"a", "u", "t", "h", "o", "r", ":", "\"", "I", "v", " ", "E", "y", "\"">>,
              <<"t", "i", "t", "l", "e", ":", "o", "d">>,
              <<"t", "i", "t", "l", "e", ":", "\"", "O", "d", "e", "\"">>,
              <<"s", "e", "r", "i", "e", "s", ":", "s", "u">>,
              <<"d", "e", "s", "c", "r", "i", "p", "t", "i", "o", "n", ":", "m", "y">>,
              <<"a", "u", "t", "h", "o", "r", ":", "e", "y", " ", "o", "d", "e">>}}

InitSearch ==
    /\ db \in SearchCatalogs
    /\ ftsFresh = FALSE
    /\ feed = NoFeed
    /\ conn = [c \in ConnIds |-> IF c = 1 THEN OpenedConn ELSE ClosedConn]
    /\ freeConn = <<1>>
    /\ writer = NoThread
    /\ th = [t \in Threads |-> IdleThread]
    /\ hist = [atCall |-> [t \in Threads |-> [db |-> EmptyDB, fresh |-> FALSE]],
               lastRec |-> [id \in BookIDs |-> <<>>],
               sinceClear |-> [known |-> FALSE, inserts |-> 0, batch |-> <<>>]]
    /\ ncalls = 0
    /\ faults = MaxFaults
    /\ pq = NoParse

NextSearch ==
    \/ ncalls = 0 /\ \E f \in SearchFilters : SearchBooksCall("t1", f)
    \/ SrchCount("t1")
    \/ SrchQuery("t1")
    \/ SrchScan("t1")
    \/ SrchReturn("t1")

SpecSearch == InitSearch /\ [][NextSearch]_vars

\* The text pipeline of a search, on one free-form query
InitQuery ==
    /\ InitRepo /\ feed = NoFeed /\ faults = 0
    /\ \E pieces \in PiecesUpTo(MaxPieces) :
          pq = [input |-> pieces, query |-> Concat(pieces), tokens |-> <<>>,
                parsed |-> <<>>, prepared |-> <<>>, filter |-> <<>>,
                sql |-> <<>>]

NextQuery ==
    \/ TokenizeQuery
    \/ pq.tokens # <<>> /\ ParseQuery
    \/ PrepareSearch
    \/ BuildStatements

SpecQuery == InitQuery /\ [][NextQuery]_vars

\* An OPDS client that opens the feed of the newest books, with no page
\* parameter or with one that stands for page 1, and follows its next links,
\* over a catalog of up to MaxTotal books
InitFeed ==
    /\ InitRepo /\ faults = 0 /\ pq = NoParse
    /\ \E n \in 0 .. MaxTotal : feed = [NoFeed EXCEPT !.catalog = n]

NextFeed ==
    \/ /\ feed.served = 0
       /\ \E p \in {<<>>, <<"1">>, <<"0">>, <<"x">>} :
             NewBooks([path |-> "/opds/books/new", page |-> p])
    \/ /\ feed.served \in 1 .. (MaxPage - 1)
       /\ \E i \in 1 .. Len(feed.Links) :
             feed.Links[i].Rel = "next" /\ NewBooks(feed.Links[i].Href)

SpecFeed == InitFeed /\ [][NextFeed]_vars

----------------------------------------------------------------------------
\* Properties of the repository, one request at a time (Spec)

\* no call is running
Quiet == \A t \in Threads : th[t].pc \in {"idle", "done"}

DoneCall(t, op) == th[t].pc = "done" /\ th[t].op = op

FTSRowsOf(d, id) ==
    Cardinality({i \in 1 .. Len(d.books_fts) : d.books_fts[i].book_id = id})

\* C1: between calls, the full-text table holds exactly one row for every book
\* ID of the books table and no row for any other ID.
C1_FTSInSync ==
    Quiet => \A id \in BookIDs :
                FTSRowsOf(db, id) = IF \E b \in db.books : b.id = id THEN 1 ELSE 0

\* C3: an insert_books call that returned an error left every table (and the
\* id sequences) as it was when the call was made.
C3_InsertAtomic ==
    \A t \in Threads :
        DoneCall(t, "insert") /\ th[t].err => db = hist.atCall[t].db

\* a two-record call failed on its second record, after the first was written
\* in the transaction
C3_Witness ==
    /\ DoneCall("t1", "insert") /\ th["t1"].err /\ th["t1"].began
    /\ Len(th["t1"].books) = 2 /\ th["t1"].i = 2
    /\ \A b \in db.books : b.id # th["t1"].books[1].ID

AuthorRows(d, name) == {a \in d.authors : a.name = name}

\* the records of a batch that are the last with their ID
LastRecords(books) == {books[i] : i \in {j \in 1 .. Len(books) : \A k \in (j + 1) .. Len(books) : books[k].ID # books[j].ID}}

AuthorNames(book) == {book.Authors[i] : i \in 1 .. Len(book.Authors)} \ {<<>>}

\* C4: after a successful insert_books no author name has two rows, and every
\* book of the batch is associated with the one row of each of its authors.
C4_SharedAuthor ==
    \A t \in Threads :
        DoneCall(t, "insert") /\ ~th[t].err /\ th[t].books # <<>> =>
            /\ \A a1, a2 \in db.authors : a1.name = a2.name => a1 = a2
            /\ \A b \in LastRecords(th[t].books) : \A n \in AuthorNames(b) :
                  /\ Cardinality(AuthorRows(db, n)) = 1
                  /\ \A a \in AuthorRows(db, n) :
                        [book_id |-> b.ID, author_id |-> a.id] \in db.book_authors

\* two books sharing an author that had no row were inserted in one batch
C4_Witness ==
    /\ DoneCall("t1", "insert") /\ ~th["t1"].err
    /\ th["t1"].books = <<BookA1, BookB>>
    /\ AuthorRows(hist.atCall["t1"].db, Ann) = {}
    /\ Cardinality(AuthorRows(db, Ann)) = 1

AllEmpty(d) ==
    /\ d.book_authors = {} /\ d.books = {} /\ d.authors = {}
    /\ d.series = {} /\ d.genres = {} /\ d.books_fts = <<>>

\* C7: a clear_all that returned an error left every table and the freshness
\* flag as they were; one that succeeded left the six tables empty and the
\* flag true.
C7_ClearAtomic ==
    \A t \in Threads :
        DoneCall(t, "clear") =>
            IF th[t].err
            THEN db = hist.atCall[t].db /\ ftsFresh = hist.atCall[t].fresh
            ELSE AllEmpty(db) /\ ftsFresh

\* a clear_all of a catalog with books failed after it opened its transaction
C7_Witness ==
    /\ DoneCall("t1", "clear") /\ th["t1"].err /\ th["t1"].began
    /\ db.books # {}
    /\ ~ftsFresh

DistinctIDs(books) == {books[i].ID : i \in 1 .. Len(books)}

SearchDoneAfterClear(t, n) ==
    /\ DoneCall(t, "search") /\ ~th[t].err
    /\ hist.sinceClear.known /\ hist.sinceClear.inserts = n

\* C8 as stated: the search that follows clear_all and one insert_books returns
\* the number of records of the batch as total.
C8_TotalIsBatchLength ==
    \A t \in Threads :
        SearchDoneAfterClear(t, 1) =>
            th[t].result.Total = Len(hist.sinceClear.batch)

\* C8: a search with no filter that follows clear_all returns total 0 and no
\* books; after one more successful insert_books it returns the number of
\* distinct book IDs of the batch as total.
C8_ClearThenSearch ==
    \A t \in Threads :
        /\ SearchDoneAfterClear(t, 0) =>
              th[t].result.Total = 0 /\ th[t].result.Books.items = <<>>
        /\ SearchDoneAfterClear(t, 1) =>
              th[t].result.Total = Cardinality(DistinctIDs(hist.sinceClear.batch))

\* clear_all, insert_books of two records with two IDs, search: total 2
C8_Witness ==
    /\ SearchDoneAfterClear("t1", 1)
    /\ Len(hist.sinceClear.batch) = 2
    /\ th["t1"].result.Total = 2

NameOf(rows, id) == IF id = NullID THEN <<>> ELSE <<(CHOOSE r \in rows : r.id = id).name>>

\* C9: between calls the books table has one row per ID, and the row holds the
\* fields of the last record committed with that ID.
C9_UpsertByID ==
    Quiet =>
        /\ \A r1, r2 \in db.books : r1.id = r2.id => r1 = r2
        /\ \A id \in BookIDs : hist.lastRec[id] # <<>> =>
              \E r \in db.books :
                 LET b == hist.lastRec[id][1]
                 IN  /\ r.id = id /\ r.title = b.Title
                     /\ NameOf(db.series, r.series_id)
                          = (IF b.Series = <<>> THEN <<>> ELSE <<b.Series>>)
                     /\ NameOf(db.genres, r.genre_id)
                          = (IF b.Genre = "" THEN <<>> ELSE <<b.Genre>>)
                     /\ r.year = b.Year /\ r.language = b.Language
                     /\ r.file_size = b.FileSize /\ r.archive_path = b.ArchivePath
                     /\ r.format = b.Format /\ r.date_added = b.Date
                     /\ r.rating = b.Rating /\ r.annotation = b.Annotation

\* a book was imported again with other fields, in a later call
C9_Witness ==
    /\ DoneCall("t1", "insert") /\ ~th["t1"].err
    /\ hist.lastRec["b1"] = <<BookA2>>
    /\ \E r \in hist.atCall["t1"].db.books : r.id = "b1" /\ r.title = BookA1.Title
    /\ \E r \in db.books : r.id = "b1" /\ r.title = BookA2.Title

----------------------------------------------------------------------------
\* Properties of the repository under concurrent requests (SpecConc)

\* C2: whenever the freshness flag is true the full-text table is empty.
C2_FreshMeansEmpty == ftsFresh => db.books_fts = <<>>

InsideInsert(t) == th[t].op = "insert" /\ th[t].pc \notin {"idle", "done"}

\* C6: once insert_books has returned and no other import is running, every
\* open connection has the pragma values connections are opened with, which
\* are the values they had before the call.
C6_PragmasRestored ==
    \A t \in Threads :
        DoneCall(t, "insert") /\ (\A o \in Threads : ~InsideInsert(o)) =>
            \A c \in ConnIds : conn[c].open => conn[c].pragma = DefaultPragmas

----------------------------------------------------------------------------
\* Properties of the query parser (SpecParse)

TermsOf(q, field) ==
    CASE field = "title" -> q.TitleTerms
      [] field = "authors" -> q.AuthorTerms
      [] field = "series" -> q.SeriesTerms
      [] field = "annotation" -> q.AnnotationTerms

\* the qualifier stands first in the query or after a space
AtWordStart(in) == in.prefix = <<>> \/ IsSpace(in.prefix[Len(in.prefix)])

\* C10: parsing a query that holds <field>:<value> at a word start, for any
\* name of the vocabulary in any letter case, puts the tokens of the value in
\* that field's list and leaves in general_tokens only the tokens of the text
\* around the span.
C10_EveryNameQualifies ==
    pq.parsed # <<>> /\ AtWordStart(pq.input) =>
        /\ TermsOf(pq.parsed[1], normalizeSearchField(pq.input.name))
             = tokenizeText(unquoteSearchValue(pq.input.value))
        /\ pq.parsed[1].GeneralTerms
             = tokenizeText(pq.input.prefix) \o tokenizeText(pq.input.suffix)

----------------------------------------------------------------------------
\* Properties of the text pipeline (SpecQuery)

\* a vocabulary name, in any letter case, with a colon and a value after it
HasQualifier(text) ==
    \E p \in 1 .. Len(text) : \E n \in NamesAt(text, p) :
        p + Len(n) + 1 <= Len(text) /\ ~IsSpace(text[p + Len(n) + 1])

\* C11: parsing a query that holds no <vocabulary name>:<value> leaves the
\* title, author, series and annotation lists empty and makes general_tokens
\* the tokenization of the whole query.
C11_NoQualifierAllGeneral ==
    pq.parsed # <<>> /\ ~HasQualifier(pq.query) =>
        /\ pq.parsed[1].TitleTerms = <<>> /\ pq.parsed[1].AuthorTerms = <<>>
        /\ pq.parsed[1].SeriesTerms = <<>> /\ pq.parsed[1].AnnotationTerms = <<>>
        /\ pq.parsed[1].GeneralTerms = tokenizeText(pq.query)

\* a query with an unknown field and a vocabulary name without a value was parsed
C11_Witness ==
    /\ pq.parsed # <<>>
    /\ pq.input = <<Piece.unknown, Piece.space, Piece.title>>
    /\ pq.parsed[1].GeneralTerms = <<<<"x">>, <<"a">>, <<"t", "i", "t", "l", "e">>>>

\* the pieces after the k-th are plain words and spaces
PlainAfter(pieces, k) ==
    \A j \in (k + 1) .. Len(pieces) :
        pieces[j] \in {Piece.word, Piece.upper, Piece.space, Piece.dash}

\* the pieces before the k-th hold no colon and no quote, and the k-th stands
\* at a word start
PlainBefore(pieces, k) ==
    /\ \A j \in 1 .. (k - 1) :
          pieces[j] \in {Piece.word, Piece.upper, Piece.space, Piece.dash}
    /\ k = 1 \/ pieces[k - 1] \in {Piece.space, Piece.dash}

\* author:"Tw... with no closing quote stands as the k-th piece
UnterminatedAt(pieces, k) ==
    /\ k \in 1 .. Len(pieces) /\ pieces[k] = Piece.unterminated
    /\ PlainBefore(pieces, k) /\ PlainAfter(pieces, k)

\* the text from the opening quote on
QuotedText(pieces, k) == <<"\"", "T", "w">> \o Concat(SubSeq(pieces, k + 1, Len(pieces)))

\* the length of the text's first run of characters that are not spaces
FirstWordLen(text) ==
    IF \E i \in 1 .. Len(text) : IsSpace(text[i])
    THEN (CHOOSE i \in 1 .. Len(text) :
             IsSpace(text[i]) /\ \A j \in 1 .. (i - 1) : ~IsSpace(text[j])) - 1
    ELSE Len(text)

\* C12 as stated: parsing author:"... with no closing quote returns, adds
\* nothing to the author list, and leaves the words of the text in
\* general_tokens.
C12_UnterminatedIsLiteral ==
    \A k \in 1 .. MaxPieces :
        pq.parsed # <<>> /\ UnterminatedAt(pq.input, k) =>
            /\ pq.parsed[1].AuthorTerms = <<>>
            /\ \E i \in 1 .. Len(pq.parsed[1].GeneralTerms) :
                   pq.parsed[1].GeneralTerms[i] = <<"t", "w">>

\* C12: parsing author:"... with no closing quote returns; the qualifier takes
\* the text from the quote up to the next space, whose tokens go to the author
\* list, and the text before the qualifier and after that space makes
\* general_tokens.
C12_UnterminatedTakesWord ==
    \A k \in 1 .. MaxPieces :
        pq.parsed # <<>> /\ UnterminatedAt(pq.input, k) =>
            LET quoted == QuotedText(pq.input, k)
                n == FirstWordLen(quoted)
            IN  /\ pq.parsed[1].AuthorTerms = tokenizeText(SubSeq(quoted, 1, n))
                /\ pq.parsed[1].GeneralTerms
                     = tokenizeText(Concat(SubSeq(pq.input, 1, k - 1)))
                         \o tokenizeText(SubSeq(quoted, n + 1, Len(quoted)))
                /\ pq.parsed[1].TitleTerms = <<>> /\ pq.parsed[1].SeriesTerms = <<>>
                /\ pq.parsed[1].AnnotationTerms = <<>>

\* author:"Tw a (no closing quote) was parsed: tw is an author term, a a general one
C12_Witness ==
    /\ pq.parsed # <<>>
    /\ pq.input = <<Piece.unterminated, Piece.space, Piece.word>>
    /\ pq.parsed[1].AuthorTerms = <<<<"t", "w">>>>
    /\ pq.parsed[1].GeneralTerms = <<<<"a">>>>

\* the maximal runs of letters and digits of a text, as <<first, last>>
Runs(text) ==
    {r \in (1 .. Len(text)) \X (1 .. Len(text)) :
        /\ r[1] <= r[2]
        /\ \A i \in r[1] .. r[2] : IsLetterOrDigit(text[i])
        /\ r[1] = 1 \/ ~IsLetterOrDigit(text[r[1] - 1])
        /\ r[2] = Len(text) \/ ~IsLetterOrDigit(text[r[2] + 1])}

\* C13: tokenize returns the maximal runs of letters and digits of its input,
\* lowercased, in order of appearance: no token is empty or holds a
\* separator, and a text without letters and digits gives no token.
C13_TokensAreRuns ==
    pq.tokens # <<>> =>
        LET toks == pq.tokens[1]
            runs == Runs(pq.query)
        IN  /\ Len(toks) = Cardinality(runs)
            /\ \A r \in runs :
                  toks[Cardinality({o \in runs : o[1] <= r[1]})]
                      = [i \in 1 .. (r[2] - r[1] + 1) |-> ToLowerChar(pq.query[r[1] + i - 1])]
            /\ \A i \in 1 .. Len(toks) :
                  /\ toks[i] # <<>>
                  /\ \A j \in 1 .. Len(toks[i]) :
                        IsLetterOrDigit(toks[i][j]) /\ ToLowerChar(toks[i][j]) = toks[i][j]

\* a capital, a Cyrillic capital and a digit, a dash, a letter: two lowercased runs
C13_Witness ==
    /\ pq.tokens = <<<<<<"b", "cy_i", "1">>, <<"a">>>>>>
    /\ pq.input = <<Piece.upper, Piece.dash, Piece.word>>

\* the different tokens of a list, in the order of their first occurrence
Distinct(tokens) ==
    LET first == {i \in 1 .. Len(tokens) : \A j \in 1 .. (i - 1) : tokens[j] # tokens[i]}
    IN  [k \in 1 .. Cardinality(first) |->
            tokens[CHOOSE i \in first : Cardinality({j \in first : j <= i}) = k]]

AndText == <<" ", "A", "N", "D", " ">>
OrText == <<" ", "O", "R", " ">>

ColumnText ==
    [title |-> <<"t", "i", "t", "l", "e">>,
     annotation |-> <<"a", "n", "n", "o", "t", "a", "t", "i", "o", "n">>,
     authors |-> <<"a", "u", "t", "h", "o", "r", "s">>,
     series |-> <<"s", "e", "r", "i", "e", "s">>]

\* <column>:<token>*
PrefixTerm(column, token) == ColumnText[column] \o <<":">> \o token \o <<"*">>

\* the group of a field's tokens
FieldGroup(column, tokens) ==
    Join([k \in 1 .. Len(Distinct(tokens)) |-> PrefixTerm(column, Distinct(tokens)[k])],
         AndText)

\* the group of the general tokens
GeneralGroup(tokens) ==
    Join([k \in 1 .. Len(Distinct(tokens)) |->
             <<"(">> \o PrefixTerm("title", Distinct(tokens)[k])
                 \o OrText \o PrefixTerm("annotation", Distinct(tokens)[k])
                 \o OrText \o PrefixTerm("authors", Distinct(tokens)[k])
                 \o OrText \o PrefixTerm("series", Distinct(tokens)[k]) \o <<")">>],
         AndText)

\* a column of the row holds a word that starts with the token
PrefixIn(text, token) ==
    \E r \in Runs(text) :
        /\ r[2] - r[1] + 1 >= Len(token)
        /\ \A i \in 1 .. Len(token) : ToLowerChar(text[r[1] + i - 1]) = token[i]

\* the rows of books_fts the expression is evaluated on
FTSRows == {ftsRow(b) : b \in BookInputs}

SetOf(tokens) == {tokens[i] : i \in 1 .. Len(tokens)}

\* C14: the full-text expression is the AND of the non-empty groups in the
\* order general, title, authors, series, annotation, every distinct token
\* once, in first-seen order, with one trailing *; a row matches it exactly
\* when every general token starts a word of one of the four columns and
\* every field token starts a word of its column; it is empty exactly when
\* the five token lists are empty.
C14_ExpressionIsAndOfGroups ==
    pq.prepared # <<>> =>
        LET q == parseSearchQuery(pq.query)
            expr == pq.prepared[1].ftsExpr
            groups == <<GeneralGroup(q.GeneralTerms), FieldGroup("title", q.TitleTerms),
                        FieldGroup("authors", q.AuthorTerms),
                        FieldGroup("series", q.SeriesTerms),
                        FieldGroup("annotation", q.AnnotationTerms)>>
            present == {g \in 1 .. 5 : groups[g] # <<>>}
        IN  /\ expr = <<>> <=>
                  /\ q.GeneralTerms = <<>> /\ q.TitleTerms = <<>> /\ q.AuthorTerms = <<>>
                  /\ q.SeriesTerms = <<>> /\ q.AnnotationTerms = <<>>
            /\ expr = Join([k \in 1 .. Cardinality(present) |->
                              groups[CHOOSE g \in present :
                                        Cardinality({h \in present : h <= g}) = k]],
                           AndText)
            /\ expr # <<>> =>
                  \A row \in FTSRows :
                     FTSMatch(expr, row) <=>
                        /\ \A t \in SetOf(q.GeneralTerms) :
                              \/ PrefixIn(row.title, t) \/ PrefixIn(row.annotation, t)
                              \/ PrefixIn(row.authors, t) \/ PrefixIn(row.series, t)
                        /\ \A t \in SetOf(q.TitleTerms) : PrefixIn(row.title, t)
                        /\ \A t \in SetOf(q.AuthorTerms) : PrefixIn(row.authors, t)
                        /\ \A t \in SetOf(q.SeriesTerms) : PrefixIn(row.series, t)
                        /\ \A t \in SetOf(q.AnnotationTerms) : PrefixIn(row.annotation, t)

\* a general token and an author token: the general group, then the authors one
C14_Witness ==
    /\ pq.prepared # <<>>
    /\ pq.input = <<Piece.word, Piece.space, Piece.unterminated>>
    /\ pq.prepared[1].ftsExpr
         = GeneralGroup(<<<<"a">>>>) \o AndText \o PrefixTerm("authors", <<"t", "w">>)
    /\ \E row \in FTSRows : FTSMatch(GeneralGroup(<<<<"a">>>>), row)
    /\ \E row \in FTSRows : ~FTSMatch(GeneralGroup(<<<<"a">>>>), row)

HasCondition(sql, kind) ==
    \E i \in 1 .. Len(sql.conditions) : sql.conditions[i].kind = kind

AnyToken(q) ==
    \/ q.GeneralTerms # <<>> \/ q.TitleTerms # <<>> \/ q.AuthorTerms # <<>>
    \/ q.SeriesTerms # <<>> \/ q.AnnotationTerms # <<>>

\* C15: no built statement holds both the MATCH and the LIKE condition; MATCH
\* is there exactly when the query yields a token in some list; LIKE, with the
\* author join, is there only when the query yields no token and its
\* remainder holds a character that is not a space.
C15_MatchOrElseLike ==
    pq.sql # <<>> =>
        LET sql == pq.sql[1]
            q == parseSearchQuery(pq.query)
        IN  /\ ~(HasCondition(sql, "books_fts MATCH") /\ HasCondition(sql, "LIKE"))
            /\ HasCondition(sql, "books_fts MATCH") <=> AnyToken(q)
            /\ HasCondition(sql, "books_fts MATCH") <=> InSeq(sql.joins, "books_fts")
            /\ HasCondition(sql, "LIKE") =>
                  /\ ~AnyToken(q)
                  /\ \E i \in 1 .. Len(q.Remainder) : ~IsSpace(q.Remainder[i])
                  /\ InSeq(sql.joins, "authors a") /\ InSeq(sql.joins, "book_authors ba")

\* "- -" yields no token: the statement has the LIKE condition on %- -% and
\* the author join, and no MATCH
C15_Witness ==
    /\ pq.sql # <<>>
    /\ pq.input = <<Piece.dash, Piece.space, Piece.dash>>
    /\ pq.sql[1].conditions[1].kind = "LIKE"
    /\ pq.sql[1].conditions[1].args[1] = <<"%", "-", " ", "-", "%">>
    /\ pq.sql[1].joinedAuthors /\ ~pq.sql[1].hasFTS

----------------------------------------------------------------------------
\* Properties of a search of a catalog (SpecSearch)

\* the statements of the running search
RunningSQL(t) == buildSearchSQL(th[t].filter)

\* the page of the running search has been read
PageRead(t) == th[t].op = "search" /\ th[t].pc = "srch_scan"

\* sub occurs in text, letters compared in lower case
Contains(text, sub) ==
    \E i \in 0 .. (Len(text) - Len(sub)) :
        \A j \in 1 .. Len(sub) : ToLowerChar(text[i + j]) = ToLowerChar(sub[j])

AuthorNamesOf(d, id) ==
    {a.name : a \in {x \in d.authors :
                        [book_id |-> id, author_id |-> x.id] \in d.book_authors}}

\* C16: under the LIKE fallback every book of the page holds the fallback
\* string, letters in either case, in its title, its annotation, the name of
\* one of its authors or its series name.
C16_LikeIsSubstring ==
    \A t \in Threads :
        PageRead(t) /\ HasCondition(RunningSQL(t), "LIKE") =>
            LET fallback == prepareFTSSearch(th[t].filter.Query).fallback
            IN  \A i \in 1 .. Len(th[t].rows) :
                    LET b == th[t].rows[i]
                    IN  \/ Contains(b.title, fallback)
                        \/ Contains(b.annotation, fallback)
                        \/ \E n \in AuthorNamesOf(db, b.id) : Contains(n, fallback)
                        \/ \E x \in db.series : x.id = b.series_id /\ Contains(x.name, fallback)

CountIn(seq, x) == Cardinality({i \in 1 .. Len(seq) : seq[i] = x})

\* C17: the built statements hold the author join pair at most once, the page
\* statement has GROUP BY b.id exactly when the pair is there, the count
\* statement has no GROUP BY and no LIMIT / OFFSET, and under the author join
\* no book is in two rows of a page.
C17_AuthorJoinOnce ==
    \A t \in Threads :
        th[t].op = "search" /\ th[t].pc \in {"srch_count", "srch_query", "srch_scan"} =>
            LET sql == RunningSQL(t)
            IN  /\ CountIn(sql.joins, "authors a") <= 1
                /\ CountIn(sql.joins, "book_authors ba") <= 1
                /\ CountIn(sql.joins, "authors a") = CountIn(sql.joins, "book_authors ba")
                /\ sql.groupBy <=> InSeq(sql.joins, "authors a")
                /\ sql.count.joins = sql.joins
                /\ ~sql.count.groupBy /\ ~sql.count.paged
                /\ (PageRead(t) /\ InSeq(sql.joins, "authors a") =>
                       \A i, j \in 1 .. Len(th[t].rows) :
                           th[t].rows[i].id = th[t].rows[j].id => i = j)

\* the fallback % with the author filter: both need the join; the book with
\* two authors is one row of the page
C17_Witness ==
    /\ PageRead("t1")
    /\ HasCondition(RunningSQL("t1"), "LIKE") /\ HasCondition(RunningSQL("t1"), "a.name IN")
    /\ CountIn(RunningSQL("t1").joins, "authors a") = 1
    /\ \E i \in 1 .. Len(th["t1"].rows) :
          th["t1"].rows[i].id = "b1" /\ Cardinality(AuthorNamesOf(db, "b1")) = 2

\* C18: the total of a search is the number of rows its page statement
\* returns over all pages, no book in two of them.
C18_TotalIsRowCount ==
    \A t \in Threads :
        PageRead(t) /\ th[t].filter.Offset = 0 /\ th[t].filter.Limit = DefaultLimit =>
            /\ Len(th[t].rows) + Len(th[t].scanned) = th[t].total
            /\ \A i, j \in 1 .. Len(th[t].rows) :
                  th[t].rows[i].id = th[t].rows[j].id => i = j

RowCount(t) == Len(CHOOSE s \in RowOrders(db, RunningSQL(t)) : TRUE)

\* ceil(n / l)
CeilDiv(n, l) == (n + l - 1) \div l

C22_DefaultIsRelevance ==
    [][\A t \in Threads :
          th[t].op = "search" /\ th[t].pc = "srch_query"
            /\ th[t].filter.SortBy = "" /\ th[t].filter.SortOrder = <<>>
            /\ RunningSQL(t).hasFTS /\ th'[t] # th[t] =>
              /\ RunningSQL(t).order = [column |-> "bm25(books_fts)", direction |-> "ASC"]
              /\ PageRead(t)']_vars

Reverse(seq) == [i \in 1 .. Len(seq) |-> seq[Len(seq) + 1 - i]]

\* C23: when a search sorted by year ascending has read a page that holds
\* all its rows, of two years or more, the same search sorted by year
\* descending returns the rows in the reverse order.
C23_YearReversed ==
    \A t \in Threads :
        PageRead(t) /\ th[t].scanned = <<>>
          /\ th[t].filter.SortBy = "year" /\ th[t].filter.SortOrder = <<>>
          /\ th[t].filter.Offset = 0 /\ Len(th[t].rows) < th[t].filter.Limit
          /\ Cardinality({th[t].rows[i].year : i \in 1 .. Len(th[t].rows)}) >= 2 =>
            \A s \in RowOrders(db, buildSearchSQL([th[t].filter EXCEPT
                                                      !.SortOrder = <<"d", "e", "s", "c">>])) :
                [i \in 1 .. Len(s) |-> s[i].id]
                    = Reverse([i \in 1 .. Len(th[t].rows) |-> th[t].rows[i].id])

\* C24: a search that has returned without error holds a book list that is
\* not nil, empty with has_more false when the total is 0, and the authors of
\* every book of the list are a list that is not nil.
C24_NeverNil ==
    \A t \in Threads :
        DoneCall(t, "search") /\ ~th[t].err =>
            LET list == th[t].result
            IN  /\ ~list.Books.isNil
                /\ (list.Total = 0 => list.Books.items = <<>> /\ ~list.HasMore)
                /\ \A i \in 1 .. Len(list.Books.items) : ~list.Books.items[i].Authors.isNil

\* the rows of books_fts that carry the text of a book
TextRowsOf(d, id) == {d.books_fts[i] : i \in {j \in 1 .. Len(d.books_fts) : d.books_fts[j].book_id = id}}

\* the general word starts a word of the title, the annotation, the authors
\* or the series of the row
GeneralIn(row, word) ==
    \/ PrefixIn(row.title, word) \/ PrefixIn(row.annotation, word)
    \/ PrefixIn(row.authors, word) \/ PrefixIn(row.series, word)

\* the query is an author qualifier and general words
IsAuthorAndWord(query) ==
    LET q == parseSearchQuery(query)
    IN  /\ q.AuthorTerms # <<>> /\ q.GeneralTerms # <<>>
        /\ q.TitleTerms = <<>> /\ q.SeriesTerms = <<>> /\ q.AnnotationTerms = <<>>

CutFrom(text, sub) ==
    \E i \in 0 .. (Len(text) - Len(sub)) : SubSeq(text, i + 1, i + Len(sub)) = sub

\* sub is cut from the title, the annotation, the full name of an author or
\* the series name of the book
CutFromBook(d, b, sub) ==
    \/ CutFrom(b.title, sub) \/ CutFrom(b.annotation, sub)
    \/ \E n \in AuthorNamesOf(d, b.id) : CutFrom(n, sub)
    \/ \E x \in d.series : x.id = b.series_id /\ CutFrom(x.name, sub)

\* the first page of a search by text alone, with the default limit, has
\* been read
WholePageRead(t) ==
    /\ PageRead(t) /\ th[t].scanned = <<>>
    /\ th[t].filter = [NoFilter EXCEPT !.Query = th[t].filter.Query, !.Limit = DefaultLimit]

\* C26: a search by a text cut from the title, the annotation, an author
\* name or the series name of a book, wherever in them it is cut from,
\* returns the books it is cut from and no book that does not hold it; a search
\* by author:"<full name>" returns exactly the books of the author with that
\* name.
C26_SubstringRoundTrip ==
    \A t \in Threads :
        WholePageRead(t) =>
            LET query == th[t].filter.Query
                page == {th[t].rows[i].id : i \in 1 .. Len(th[t].rows)}
                holding == {x \in db.books :
                              \/ Contains(x.title, query) \/ Contains(x.annotation, query)
                              \/ \E n \in AuthorNamesOf(db, x.id) : Contains(n, query)
                              \/ \E y \in db.series :
                                    y.id = x.series_id /\ Contains(y.name, query)}
                cut == {x \in db.books : CutFromBook(db, x, query)}
            IN  /\ (TrimSpace(query) # <<>> /\ ~HasQualifier(query) /\ cut # {} =>
                      /\ {b.id : b \in cut} \subseteq page
                      /\ page \subseteq {b.id : b \in holding})
                /\ (query = <<"a", "u", "t", "h", "o", "r", ":", "\"", "I", "v", " ", "E", "y", "\"">> =>
                      page = {b.id : b \in {x \in db.books :
                                               <<"I", "v", " ", "E", "y">> \in AuthorNamesOf(db, x.id)}})

\* the token starts a word of an author name, of the series name of the book
InAuthors(d, b, token) == \E n \in AuthorNamesOf(d, b.id) : PrefixIn(n, token)
InSeries(d, b, token) ==
    \E x \in d.series : x.id = b.series_id /\ PrefixIn(x.name, token)

\* every word of the query is a word or the beginning of a word of the book:
\* a general one of its title, annotation, author names or series name, a
\* qualified one of the text of its field
WordsOfBook(d, b, query) ==
    LET q == parseSearchQuery(query)
    IN  /\ AnyToken(q)
        /\ \A w \in SetOf(q.GeneralTerms) :
              \/ PrefixIn(b.title, w) \/ PrefixIn(b.annotation, w)
              \/ InAuthors(d, b, w) \/ InSeries(d, b, w)
        /\ \A w \in SetOf(q.TitleTerms) : PrefixIn(b.title, w)
        /\ \A w \in SetOf(q.AuthorTerms) : InAuthors(d, b, w)
        /\ \A w \in SetOf(q.SeriesTerms) : InSeries(d, b, w)
        /\ \A w \in SetOf(q.AnnotationTerms) : PrefixIn(b.annotation, w)

\* C27: in a catalog of one book with its one full-text row, a query whose
\* words (its runs of letters and digits) are words or beginnings of words
\* of the book (unqualified, under the qualifier of their field, or both)
\* counts 1 and returns a page of that one book.
C27_WordsFindTheBook ==
    \A t \in Threads :
        WholePageRead(t) /\ Cardinality(db.books) = 1 /\ Len(db.books_fts) = 1 =>
            \A b \in db.books :
                WordsOfBook(db, b, th[t].filter.Query) =>
                    /\ th[t].total = 1
                    /\ Len(th[t].rows) = 1 /\ th[t].rows[1].id = b.id

----------------------------------------------------------------------------
\* Properties of the order clause (SpecQuery)

\* the text is "desc" in any letter case
IsDescWord(text) ==
    /\ Len(text) = 4
    /\ text[1] \in {"d", "D"} /\ text[2] \in {"e", "E"}
    /\ text[3] \in {"s", "S"} /\ text[4] \in {"c", "C"}

\* the column a sort key names; every key but year, date_added and relevance
\* names the title, and relevance names the rank under a full-text clause only
KeyColumn(by, fts) ==
    CASE by = "year" -> "b.year"
      [] by = "date_added" -> "b.date_added"
      [] by = "relevance" -> IF fts THEN "bm25(books_fts)" ELSE "b.title"
      [] OTHER -> "b.title"

\* C21 as stated: year orders by the year column, date_added by the date-added
\* column, relevance by the rank under a full-text clause and by title
\* otherwise, every other key, the empty one included, by title; the
\* direction is descending exactly when sort_order is "desc" in any letter
\* case.
C21_EmptyKeyIsTitle ==
    pq.sql # <<>> =>
        LET f == pq.filter[1]
            sql == pq.sql[1]
        IN  /\ sql.order.column = KeyColumn(f.SortBy, HasCondition(sql, "books_fts MATCH"))
            /\ sql.order.direction = "DESC" <=> IsDescWord(f.SortOrder)

\* C21: as above, but for the empty key, which orders by the rank when a
\* full-text clause is active and by title when none is; a search with no
\* query, no sort_by and no sort_order is by title ascending.
C21_PermissiveSort ==
    pq.sql # <<>> =>
        LET f == pq.filter[1]
            sql == pq.sql[1]
            fts == HasCondition(sql, "books_fts MATCH")
        IN  /\ sql.order.column =
                  KeyColumn(IF f.SortBy = "" /\ fts THEN "relevance" ELSE f.SortBy, fts)
            /\ sql.order.direction = "DESC" <=> IsDescWord(f.SortOrder)
            /\ sql.order.direction \in {"ASC", "DESC"}
            /\ (TrimSpace(f.Query) = <<>> /\ f.SortBy = "" /\ f.SortOrder = <<>> =>
                   sql.order = [column |-> "b.title", direction |-> "ASC"])

\* an unknown key with DESC in capitals over a full-text query: title, descending
C21_Witness ==
    /\ pq.sql # <<>>
    /\ pq.filter[1].SortBy = "Year" /\ pq.filter[1].SortOrder = <<"D", "E", "S", "C">>
    /\ HasCondition(pq.sql[1], "books_fts MATCH")
    /\ pq.sql[1].order = [column |-> "b.title", direction |-> "DESC"]

\* C28: the statements built for a query that holds a character other than a
\* space have the MATCH condition or the LIKE condition.
C28_TextAlwaysFilters ==
    pq.sql # <<>> /\ (\E i \in 1 .. Len(pq.query) : ~IsSpace(pq.query[i])) =>
        \/ HasCondition(pq.sql[1], "books_fts MATCH")
        \/ HasCondition(pq.sql[1], "LIKE")

FTSTextsOf(d, id) ==
    {d.books_fts[i].authors :
        i \in {j \in 1 .. Len(d.books_fts) : d.books_fts[j].book_id = id}}

ReturnedNames(d, id) ==
    LET authors == getBookAuthors(d, id).items
    IN  {authors[i].Name : i \in 1 .. Len(authors)}

\* C29: between calls, as long as the tables were never cleared, the authors a
\* book is linked to, which are the authors search and get_by_id return for it,
\* are the non-empty author names of the last record committed with its ID, and
\* the one authors text of its full-text row is the names of that record
\* joined by a space, so that it holds every returned name.
C29_AuthorsOfLastRecord ==
    Quiet /\ ~hist.sinceClear.known =>
        \A id \in BookIDs : hist.lastRec[id] # <<>> =>
            LET b == hist.lastRec[id][1]
            IN  /\ AuthorNamesOf(db, id) = AuthorNames(b)
                /\ ReturnedNames(db, id) = AuthorNames(b)
                /\ FTSTextsOf(db, id) = {Join(b.Authors, <<" ">>)}
                /\ FTSRowsOf(db, id) = 1
                /\ \A name \in ReturnedNames(db, id) :
                      \A text \in FTSTextsOf(db, id) : Contains(text, name)

\* a book of two authors was imported again, in a later call, with one of
\* them: it is linked to that one only, and the other author still has a row
C29_Witness ==
    /\ DoneCall("t1", "insert") /\ ~th["t1"].err /\ ~hist.sinceClear.known
    /\ hist.lastRec["b1"] = <<BookA2>>
    /\ AuthorNamesOf(hist.atCall["t1"].db, "b1") = {Ann, Bob}
    /\ AuthorNamesOf(db, "b1") = {Bob}
    /\ AuthorRows(db, Ann) # {}

----------------------------------------------------------------------------
\* Properties of the feed of the newest books (SpecFeed)

HasNextLink == \E i \in 1 .. Len(feed.Links) : feed.Links[i].Rel = "next"

\* C30: a feed of the newest books carries a next link exactly when books
\* exist beyond its page (page * 30 < N for a catalog of N books), and a
\* client that starts at page 1 and follows the next links is never served a
\* page beyond ceil(N / 30) (page 1 for an empty catalog).
C30_NextIffBooksBeyond ==
    feed.served > 0 =>
        /\ HasNextLink <=> feed.page * pageSize < feed.catalog
        /\ feed.page <= (IF feed.catalog = 0 THEN 1 ELSE CeilDiv(feed.catalog, pageSize))

====
